---- MODULE Spec2Model ----
(***************************************************************************)
(* A model of the iModel traversal/export engine (IModelTraverser) and of  *)
(* the layers built on it.  Every export method of the traverser is a pure *)
(* operator over a run record                                              *)
(*   st = [log, asked, loaded, excluded, counter, changes, error]          *)
(* that is threaded through the calls in the order the code awaits them:   *)
(*   log     the handler callbacks issued so far, in order                 *)
(*   asked   the entities the handler's shouldExport* predicate was asked  *)
(*   loaded  the entities read from the source database                    *)
(*   excluded the <<element, rule>> pairs logged by shouldExportElement    *)
(*   counter _progressCounter                                              *)
(*   changes _sourceDbChanges                                              *)
(*   error   the error the call has thrown ("": none)                      *)
(* A top-level call of the host is one action applying the operator.       *)
(***************************************************************************)
EXTENDS Integers, Sequences, FiniteSets, TLC

\* ---------------------------------------------------------------- bounds
\* Number of elements of the source database (ids 1..NumElems).
NumElems == 5
\* Number of exclusion rules the host registers before exporting.
MaxRules == 1
\* Number of entities of the source the pipeline transforms (ids 1..NumEntities).
NumEntities == 4
\* Number of edits (updates, deletes) the source receives between transformations.
MaxEdits == 2
\* Number of processAll runs.
MaxRuns == 3
\* Number of explicit remap calls the host makes on one Remap Context.
MaxRemaps == 2

\* ------------------------------------------------------- source database
\* IModel.rootSubjectId / IModel.repositoryModelId (both 0x1).
rootSubjectId == 1
repositoryModelId == 1

ElemIds == 1..NumElems

VARIABLES
  sourceDbKind,           \* "snapshot", "briefcase" or "briefcase-no-changeset"
                          \* (a briefcase whose changeset id is "")
  place,                  \* shape of the source database: for each element but the
                          \* root Subject, "child" (child of the element before it)
                          \* or "top" (parent-less, in the nearest earlier sub-model)
  wantTemplateModels, visitElements, visitRelationships, progressInterval,
  wantSystemSchemas,
  asyncHandler,           \* whether the handler's onExportSchema returns a promise
                          \* that is still pending when the call returns
  callLimit,              \* number of top-level calls the host makes on the traverser
  excludedCodeSpecNames, excludedElementIds, excludedElementCategoryIds,
  excludedElementClasses, excludedElementAspectClasses,
  excludedElementAspectClassFullNames, excludedRelationshipClasses,
  handlerRejects,         \* what the handler's shouldExport* predicates reject
  progressCounter, sourceDbChanges,
  log, asked, loaded,     \* callbacks, predicate consultations and loads of the last call
  excludedLog,            \* the exclusions the last call logged
  accesses,               \* number of source accesses (queries, loads) of the last call
  failedAt,               \* length of the log when a source access of the last call
                          \* failed, -1 if none did
  lastCall, calls

\* The transform/import pipeline that consumes a traversal (IModelTransformer and
\* IModelImporter).
VARIABLES
  srcVersion,             \* content version of each source entity, 0 once deleted
  edits, sourceChanged,   \* source edits so far; whether any since the last processAll began
  pipeExcluded,           \* the source entities the transformation excludes
  targetDb,               \* the entities of the target: [id, kind]
  provenance,             \* the Provenance Records of the target
  remapTable,             \* the run's Remap Context: source id -> target id, 0 if none
  entityState,            \* per source entity: Pending, Excluded, Deferred, ...
  stats,                  \* what the importer did in the run: its counters
  phase, runs, nextId,
  baseline,               \* the target's counts when the run began
  backRefs,               \* whether the second element of a group refers back to the first
  noProvenance,           \* whether the transformation suppresses its Provenance Records
  pipeSources,            \* the sources the host transforms into the target
  teamScopes,             \* whether each source is given its own synchronization scope
                          \* (otherwise every transformation uses the default scope)
  runSource,              \* the source of the current (or last) run
  scopeSource,            \* per scope, the source the target records for it ("none" if none)
  deferralQueue,          \* the Deferred Items of the run: [id, blocking]
  pipeError,              \* the error the last run or remap call raised: [kind, entities]
  imports,                \* the upserts of the run, in order: [id, deferred, blocking,
                          \* refs, provenance]
  codeSpecRemap,          \* the Remap Context's code-spec namespace: source id -> target id
  remapCalls              \* the explicit remap calls made on the Remap Context, in order

\* The tree event handler (TreeEventHandler) and the widget layout
\* (NineZoneStateReducer).
VARIABLES
  streams,                \* the streams handed to the tree event handler, in order:
                          \* [kind, active, firstEmission, disposed, replaced]; active
                          \* is whether the handler's subscription is still open,
                          \* disposed and replaced whether dispose() and
                          \* onSelectionReplaced() were called after the stream was handed
  treeCalls,              \* the calls the last event made on the TreeModelMutator, in
                          \* order: [op, stream, deselects]
  nineZone,               \* the NineZoneState the reducer returned last
  dispatched              \* how many actions have been dispatched to the reducer

uiVars == <<streams, treeCalls, nineZone, dispatched>>

\* No tree event handler and no layout take part in an export or a transformation.
NoTree == streams = <<>> /\ treeCalls = <<>>
NoZones == nineZone = <<>> /\ dispatched = 0

pipeVars == <<srcVersion, edits, sourceChanged, pipeExcluded, targetDb, provenance,
              remapTable, entityState, stats, phase, runs, nextId, baseline,
              backRefs, noProvenance, pipeSources, teamScopes, runSource, scopeSource,
              deferralQueue, pipeError, imports, codeSpecRemap, remapCalls>>

vars == <<sourceDbKind, place, wantTemplateModels, visitElements, visitRelationships, progressInterval,
          excludedCodeSpecNames, excludedElementIds, excludedElementCategoryIds,
          excludedElementClasses, excludedElementAspectClasses,
          excludedElementAspectClassFullNames, excludedRelationshipClasses,
          handlerRejects, progressCounter, sourceDbChanges, log, asked, loaded,
          excludedLog, lastCall, calls, wantSystemSchemas, asyncHandler, callLimit,
          accesses, failedAt, pipeVars, uiVars>>

\* Class of an element: the root Subject, then PhysicalPartition,
\* DefinitionPartition, PhysicalObject, TemplateRecipe3d, repeating.
ElementClass(e) ==
  IF e = rootSubjectId THEN "Subject"
  ELSE CASE (e - 2) % 4 = 0 -> "PhysicalPartition"
         [] (e - 2) % 4 = 1 -> "DefinitionPartition"
         [] (e - 2) % 4 = 2 -> "PhysicalObject"
         [] OTHER           -> "TemplateRecipe3d"

\* The direct base class of a class ("" above the roots).
BaseClass(c) ==
  CASE c = "Subject"                     -> "Element"
    [] c = "PhysicalPartition"           -> "InformationPartitionElement"
    [] c = "DefinitionPartition"         -> "InformationPartitionElement"
    [] c = "InformationPartitionElement" -> "Element"
    [] c = "PhysicalObject"              -> "GeometricElement"
    [] c = "GeometricElement"            -> "Element"
    [] c = "TemplateRecipe3d"            -> "RecipeDefinitionElement"
    [] c = "RecipeDefinitionElement"     -> "Element"
    [] c = "ExternalSourceAspect"        -> "ElementMultiAspect"
    [] c = "ElementMultiAspect"          -> "ElementAspect"
    [] c = "ChannelRootAspect"           -> "ElementUniqueAspect"
    [] c = "ElementUniqueAspect"         -> "ElementAspect"
    [] c = "ElementGroupsMembers"        -> "ElementRefersToElements"
    [] c = "ElementRefersToElements"     -> "Relationship"
    [] OTHER                             -> ""

RECURSIVE InstanceOf(_, _)
\* `x instanceof base` for an entity x of class c.
InstanceOf(c, base) ==
  IF c = base THEN TRUE
  ELSE IF c = "" THEN FALSE
  ELSE InstanceOf(BaseClass(c), base)

\* The classes the host excludes: a base class of several classes, a base class
\* of one, and a leaf class.
ExcludableElementClasses == {"InformationPartitionElement", "GeometricElement", "PhysicalPartition"}

\* Category of a geometric element.
CategoryIds == {1, 2}
ElementCategory(e) == 1 + (e % 2)

\* The elements that have a sub-model (the model has the id of its modeled element).
IsModeled(e) ==
  ElementClass(e) \in {"Subject", "PhysicalPartition", "DefinitionPartition", "TemplateRecipe3d"}
ModelIds == {e \in ElemIds : IsModeled(e)}
IsDefinitionModel(m) == ElementClass(m) = "DefinitionPartition"
IsTemplateModel(m) == ElementClass(m) = "TemplateRecipe3d"

\* Parent element (0: none).
ParentOf(e) == IF e # rootSubjectId /\ place[e] = "child" THEN e - 1 ELSE 0

RECURSIVE NearestModel(_)
NearestModel(e) == IF e <= rootSubjectId \/ IsModeled(e) THEN e ELSE NearestModel(e - 1)

RECURSIVE ModelOf(_)
\* The model that contains an element.
ModelOf(e) ==
  IF e = rootSubjectId THEN repositoryModelId
  ELSE IF place[e] = "child" THEN ModelOf(e - 1)
  ELSE NearestModel(e - 1)

\* Model.parentModel: the model of the modeled element; none for the repository model.
ParentModelOf(m) == IF m = repositoryModelId THEN 0 ELSE ModelOf(m)

RECURSIVE SortedSeq(_)
\* The members of a set of numbers in ascending order (ORDER BY ECInstanceId).
SortedSeq(S) ==
  IF S = {} THEN <<>>
  ELSE LET m == CHOOSE x \in S : \A y \in S : x <= y
       IN <<m>> \o SortedSeq(S \ {m})

\* elements.queryChildren
queryChildren(elementId) == SortedSeq({e \in ElemIds : ParentOf(e) = elementId})

\* Code specs, fonts, relationships and aspects of the source database.
CodeSpecIds == {1, 2}
CodeSpecName(id) == IF id = 1 THEN "bis:NullCodeSpec" ELSE "bis:Subject"
FontNumbers == {1, 2}
RelationshipIds == {1, 2, 3}
RelationshipClass(r) == IF r % 2 = 1 THEN "ElementGroupsMembers" ELSE "ElementRefersToElements"
ExcludableRelationshipClasses == {"ElementRefersToElements", "ElementGroupsMembers"}

\* Aspect ids: an element with an even id owns the unique aspect 100 + e, an
\* element e with e % 3 = 1 owns the multi aspects 200 + e and 300 + e.
UniqueAspectsOf(e) == IF e % 2 = 0 THEN <<100 + e>> ELSE <<>>
MultiAspectsOf(e) == IF e % 3 = 1 THEN <<200 + e, 300 + e>> ELSE <<>>
AspectClass(a) ==
  IF a < 200 THEN (IF a % 4 = 0 THEN "ChannelRootAspect" ELSE "ElementUniqueAspect")
  ELSE IF a < 300 THEN "ExternalSourceAspect" ELSE "ElementMultiAspect"
AspectIds ==
  {100 + e : e \in {x \in ElemIds : x % 2 = 0}}
    \cup {200 + e : e \in {x \in ElemIds : x % 3 = 1}}
    \cup {300 + e : e \in {x \in ElemIds : x % 3 = 1}}
ExcludableAspectClasses == {"ElementMultiAspect", "ChannelRootAspect"}

\* ------------------------------------------------------------ change sets
\* class ChangedInstanceOps
NewChangedInstanceOps == [insertIds |-> {}, updateIds |-> {}, deleteIds |-> {}]

\* class ChangedInstanceIds
NewChangedInstanceIds ==
  [codeSpec |-> NewChangedInstanceOps, model |-> NewChangedInstanceOps,
   element |-> NewChangedInstanceOps, aspect |-> NewChangedInstanceOps,
   relationship |-> NewChangedInstanceOps, font |-> NewChangedInstanceOps]

\* _sourceDbChanges === undefined
NoChanges == [defined |-> FALSE, ids |-> NewChangedInstanceIds]

\* The isUpdate argument of a callback: undefined when no change set is known.
IsUpdateOf(st, ops, id) ==
  IF ~st.changes.defined THEN "unknown"
  ELSE IF id \in ops.insertIds THEN "insert" ELSE "update"

\* "not in changeset, don't export"
NotInChangeset(st, ops, id) ==
  st.changes.defined /\ id \notin ops.insertIds /\ id \notin ops.updateIds

\* Id64.fromUint32Pair(fontNumber, 0): the 64-bit id whose high word is 0 is the
\* low word itself (the code passes no other high word).
fromUint32Pair(low, high) == IF high = 0 THEN low ELSE 0

\* ------------------------------------------------------------- run record
\* fault: which source access of the call fails (throws), 0 for none.
NewRun(counter, changes) ==
  [log |-> <<>>, asked |-> {}, loaded |-> {}, excluded |-> {}, counter |-> counter,
   changes |-> changes, error |-> "", accesses |-> 0, fault |-> 0, failedAt |-> -1]

\* An exception is on its way to the caller: the rest of every awaiting frame is
\* skipped.
Failed(st) == st.error # ""

\* One access to the source (a statement step, a query, a load): it throws if it
\* is the access that fails.
Access(st) ==
  IF Failed(st) THEN st
  ELSE IF st.accesses + 1 = st.fault
  THEN [st EXCEPT !.accesses = @ + 1, !.error = "source access failed",
                  !.failedAt = Len(st.log)]
  ELSE [st EXCEPT !.accesses = @ + 1]

\* A callback, stamped (at) with the number of source accesses made before it.
Event(cb, kind, id, op) ==
  [cb |-> cb, kind |-> kind, id |-> id, op |-> op, batch |-> <<>>, at |-> 0]
Emit(st, ev) ==
  IF Failed(st) THEN st ELSE [st EXCEPT !.log = Append(@, [ev EXCEPT !.at = st.accesses])]
Load(st, kind, id) ==
  LET a == Access(st)
  IN IF Failed(a) THEN a ELSE [a EXCEPT !.loaded = @ \cup {<<kind, id>>}]
Ask(st, kind, id) == IF Failed(st) THEN st ELSE [st EXCEPT !.asked = @ \cup {<<kind, id>>}]

\* Mutant: the interval tested against the counter before its increment.
trackProgress_OffByOne(st) ==
  LET n == st.counter + 1
      st1 == [st EXCEPT !.counter = n]
  IN IF Failed(st) THEN st
     ELSE IF progressInterval # 0 /\ st.counter % progressInterval = 0
     THEN Emit(st1, Event("onProgress", "progress", n, "unknown"))
     ELSE st1

\* private async trackProgress()
trackProgress(st) ==
  LET n == st.counter + 1
      st1 == [st EXCEPT !.counter = n]
  IN IF Failed(st) THEN st
     ELSE IF progressInterval # 0 /\ n % progressInterval = 0
     THEN Emit(st1, Event("onProgress", "progress", n, "unknown"))
     ELSE st1

\* ---------------------------------------------------------------- schemas
\* The rows of ECDbMeta.ECSchemaDef in ECInstanceId order; a schema is named by
\* its position.
Schemas == <<"ECDbMeta", "BisCore", "Generic">>
SchemaIds == DOMAIN Schemas

RECURSIVE schemaNamesToExport(_, _, _, _)
\* Mutant: every row ready to export, whatever wantSystemSchemas says.
schemaNamesToExport_NoSystemTest(st, i, readyToExport, acc) ==
  IF i \notin SchemaIds THEN [st |-> st, names |-> acc]
  ELSE schemaNamesToExport(Ask(st, "schema", i), i + 1, TRUE,
         IF <<"schema", i>> \notin handlerRejects THEN Append(acc, i) ELSE acc)

\* The statement callback of exportSchemas over the rows from row i on:
\* [st, names] with names the schemas to export, accumulated in acc.
schemaNamesToExport(st, i, readyToExport, acc) ==
  IF i \notin SchemaIds THEN [st |-> st, names |-> acc]
  ELSE LET ready == readyToExport \/ Schemas[i] = "BisCore"
       IN IF ready
          THEN schemaNamesToExport(Ask(st, "schema", i), i + 1, ready,
                 IF <<"schema", i>> \notin handlerRejects THEN Append(acc, i) ELSE acc)
          ELSE schemaNamesToExport(st, i + 1, ready, acc)

RECURSIVE exportSchemaClosures(_, _)
\* Promise.all(schemaNamesToExport.map(async (schemaName) => ...)): map runs every
\* closure to its end, one after the other; a closure whose getSchema throws
\* rejects its own promise and does not stop the closures after it.
exportSchemaClosures(st, names) ==
  IF names = <<>> THEN st
  ELSE LET r == Emit(Load([st EXCEPT !.error = ""], "schema", Head(names)),
                     Event("onExportSchema", "schema", Head(names), "unknown"))
           merged == IF Failed(st)
                     THEN [r EXCEPT !.error = st.error, !.failedAt = st.failedAt]
                     ELSE r
       IN exportSchemaClosures(merged, Tail(names))

\* await Promise.all(...): the promises the handler calls returned settle after
\* map has made every call; a handler that returns no promise has finished
\* when its call returns.
awaitSchemaHandlers(st) ==
  LET begun == SelectSeq(st.log, LAMBDA ev : ev.cb = "onExportSchema")
  IN IF ~asyncHandler THEN st
     ELSE [st EXCEPT !.log = @ \o [i \in 1..Len(begun) |->
             [Event("onExportSchema settled", "settled", begun[i].id, "unknown")
                EXCEPT !.at = st.accesses]]]

\* exportSchemas
exportSchemas(st) ==
  LET q == Access(st)
      s == schemaNamesToExport(q, 1, wantSystemSchemas, <<>>)
  IN IF Failed(q) THEN q
     ELSE IF s.names = <<>> THEN s.st
     ELSE awaitSchemaHandlers(exportSchemaClosures(s.st, s.names))

\* ------------------------------------------------------ code specs, fonts
\* exportCodeSpecByName
exportCodeSpecByName(st, codeSpecId) ==
  LET st1 == Load(st, "codespec", codeSpecId)
      ops == st.changes.ids.codeSpec
  IN IF NotInChangeset(st, ops, codeSpecId) THEN st1
     ELSE IF CodeSpecName(codeSpecId) \in excludedCodeSpecNames THEN st1
     ELSE IF <<"codespec", codeSpecId>> \in handlerRejects THEN Ask(st1, "codespec", codeSpecId)
     ELSE trackProgress(Emit(Ask(st1, "codespec", codeSpecId),
            Event("onExportCodeSpec", "codespec", codeSpecId, IsUpdateOf(st, ops, codeSpecId))))

RECURSIVE exportCodeSpecRows(_, _)
exportCodeSpecRows(st, rows) ==
  IF rows = <<>> \/ Failed(st) THEN st
  ELSE exportCodeSpecRows(exportCodeSpecByName(st, Head(rows)), Tail(rows))

\* exportCodeSpecs
exportCodeSpecs(st) == exportCodeSpecRows(Access(st), SortedSeq(CodeSpecIds))

\* exportFontByNumber
exportFontByNumber(st, fontNumber) ==
  LET fontId == fromUint32Pair(fontNumber, 0)
      ops == st.changes.ids.font
  IN IF NotInChangeset(st, ops, fontId) THEN st
     ELSE trackProgress(Emit(Load(st, "font", fontNumber),
            Event("onExportFont", "font", fontNumber, IsUpdateOf(st, ops, fontId))))

RECURSIVE exportFontRows(_, _)
exportFontRows(st, rows) ==
  IF rows = <<>> \/ Failed(st) THEN st
  ELSE exportFontRows(exportFontByNumber(st, Head(rows)), Tail(rows))

\* exportFonts
exportFonts(st) == exportFontRows(st, SortedSeq(FontNumbers))

\* --------------------------------------------------------------- elements
\* Mutant: the template opt-out tested before the excluded ids.
ExcludingRule_TemplateFirst(element) ==
  IF ~wantTemplateModels /\ InstanceOf(ElementClass(element), "RecipeDefinitionElement") THEN 3
  ELSE IF element \in excludedElementIds THEN 1
  ELSE IF InstanceOf(ElementClass(element), "GeometricElement")
          /\ ElementCategory(element) \in excludedElementCategoryIds THEN 2
  ELSE IF \E c \in excludedElementClasses : InstanceOf(ElementClass(element), c) THEN 4
  ELSE 0

\* The built-in exclusion rules of shouldExportElement, in their order:
\* 1 excluded id, 2 excluded category, 3 template opt-out, 4 excluded class, 0 none.
ExcludingRule(element) ==
  IF element \in excludedElementIds THEN 1
  ELSE IF InstanceOf(ElementClass(element), "GeometricElement")
          /\ ElementCategory(element) \in excludedElementCategoryIds THEN 2
  ELSE IF ~wantTemplateModels /\ InstanceOf(ElementClass(element), "RecipeDefinitionElement") THEN 3
  ELSE IF \E c \in excludedElementClasses : InstanceOf(ElementClass(element), c) THEN 4
  ELSE 0

\* shouldExportElement: the verdict, and the run with the rule that excluded the
\* element logged (Logger.logInfo), or with the handler's predicate recorded as
\* asked when the built-in rules let the element through.
shouldExportElement(st, element) ==
  IF Failed(st) THEN [result |-> FALSE, st |-> st]
  ELSE IF ExcludingRule(element) # 0
  THEN [result |-> FALSE,
        st |-> [st EXCEPT !.excluded = @ \cup {<<element, ExcludingRule(element)>>}]]
  ELSE [result |-> <<"element", element>> \notin handlerRejects,
        st |-> Ask(st, "element", element)]

\* shouldExportElementAspect
shouldExportElementAspect(st, aspect) ==
  IF \E c \in excludedElementAspectClasses : InstanceOf(AspectClass(aspect), c)
  THEN [result |-> FALSE, st |-> st]
  ELSE [result |-> <<"aspect", aspect>> \notin handlerRejects,
        st |-> Ask(st, "aspect", aspect)]

\* elements._queryAspects(elementId, baseClass, excludedClassFullNames): the rows of
\* the excluded class names are left out by the query and never loaded.
queryAspects(aspects) ==
  SelectSeq(aspects, LAMBDA a : AspectClass(a) \notin excludedElementAspectClassFullNames)

RECURSIVE filterAspects(_, _, _)
\* .filter((a) => this.shouldExportElementAspect(a)) over the loaded rows:
\* [st, kept] with kept the rows that pass, accumulated in acc.
filterAspects(st, rows, acc) ==
  IF rows = <<>> THEN [st |-> st, kept |-> acc]
  ELSE LET a == Head(rows)
           r == shouldExportElementAspect(Load(st, "aspect", a), a)
       IN filterAspects(r.st, Tail(rows), IF r.result THEN Append(acc, a) ELSE acc)

RECURSIVE exportUniqueAspects(_, _)
\* the .map(async (uniqueAspect) => ...) of exportElementAspects
exportUniqueAspects(st, rows) ==
  IF rows = <<>> THEN st
  ELSE LET a == Head(rows)
           ops == st.changes.ids.aspect
           isInsertChange == st.changes.defined /\ a \in ops.insertIds
           isUpdateChange == st.changes.defined /\ a \in ops.updateIds
           doExport == ~st.changes.defined \/ isInsertChange \/ isUpdateChange
           isKnownUpdate == IF ~st.changes.defined THEN "unknown"
                            ELSE IF isUpdateChange THEN "update" ELSE "insert"
           st1 == IF doExport
                  THEN trackProgress(Emit(st,
                         Event("onExportElementUniqueAspect", "unique-aspect", a, isKnownUpdate)))
                  ELSE st
       IN exportUniqueAspects(st1, Tail(rows))

\* exportElementAspects
exportElementAspects(st, elementId) ==
  LET u == filterAspects(st, queryAspects(UniqueAspectsOf(elementId)), <<>>)
      st1 == exportUniqueAspects(u.st, u.kept)
      m == filterAspects(st1, queryAspects(MultiAspectsOf(elementId)), <<>>)
  IN IF Len(m.kept) > 0
     THEN trackProgress(Emit(m.st,
            [Event("onExportElementMultiAspects", "multi-aspect", elementId, "unknown")
               EXCEPT !.batch = m.kept]))
     ELSE m.st

RECURSIVE exportElement(_, _)
RECURSIVE exportElementRows(_, _)

\* exportChildElements
exportChildElements(st, elementId) ==
  IF ~visitElements THEN st
  ELSE exportElementRows(Access(st), queryChildren(elementId))

\* Mutant: the children exported before the aspects of the element.
exportElement_ChildrenFirst(st, elementId) ==
  IF ~visitElements THEN st
  ELSE IF NotInChangeset(st, st.changes.ids.element, elementId)
  THEN exportChildElements(st, elementId)
  ELSE LET r == shouldExportElement(Load(st, "element", elementId), elementId)
       IN IF r.result
          THEN exportElementAspects(
                 exportChildElements(
                   trackProgress(Emit(r.st,
                     Event("onExportElement", "element", elementId,
                           IsUpdateOf(st, st.changes.ids.element, elementId)))),
                   elementId),
                 elementId)
          ELSE r.st

\* Mutant: an element that is not in the change set ends the walk below it.
exportElement_SkipSubtree(st, elementId) ==
  IF ~visitElements THEN st
  ELSE IF NotInChangeset(st, st.changes.ids.element, elementId) THEN st
  ELSE LET r == shouldExportElement(Load(st, "element", elementId), elementId)
       IN IF r.result
          THEN exportChildElements(
                 exportElementAspects(
                   trackProgress(Emit(r.st,
                     Event("onExportElement", "element", elementId,
                           IsUpdateOf(st, st.changes.ids.element, elementId)))),
                   elementId),
                 elementId)
          ELSE r.st

\* Mutant: an element that is not in the change set is skipped only when its
\* parent is not in the change set either.
exportElement_ParentScoped(st, elementId) ==
  IF ~visitElements THEN st
  ELSE IF /\ NotInChangeset(st, st.changes.ids.element, elementId)
          /\ \/ ParentOf(elementId) = 0
             \/ NotInChangeset(st, st.changes.ids.element, ParentOf(elementId))
  THEN exportChildElements(st, elementId)
  ELSE LET r == shouldExportElement(Load(st, "element", elementId), elementId)
       IN IF r.result
          THEN exportChildElements(
                 exportElementAspects(
                   trackProgress(Emit(r.st,
                     Event("onExportElement", "element", elementId,
                           IsUpdateOf(st, st.changes.ids.element, elementId)))),
                   elementId),
                 elementId)
          ELSE r.st

\* Mutant: exportElement without its visitElements test.
exportElement_Unguarded(st, elementId) ==
  IF NotInChangeset(st, st.changes.ids.element, elementId)
  THEN exportChildElements(st, elementId)
  ELSE LET r == shouldExportElement(Load(st, "element", elementId), elementId)
       IN IF r.result
          THEN exportChildElements(
                 exportElementAspects(
                   trackProgress(Emit(r.st,
                     Event("onExportElement", "element", elementId,
                           IsUpdateOf(st, st.changes.ids.element, elementId)))),
                   elementId),
                 elementId)
          ELSE r.st

\* exportElement
exportElement(st, elementId) ==
  IF ~visitElements THEN st
  ELSE IF NotInChangeset(st, st.changes.ids.element, elementId)
  THEN exportChildElements(st, elementId)
  ELSE LET r == shouldExportElement(Load(st, "element", elementId), elementId)
       IN IF r.result
          THEN exportChildElements(
                 exportElementAspects(
                   trackProgress(Emit(r.st,
                     Event("onExportElement", "element", elementId,
                           IsUpdateOf(st, st.changes.ids.element, elementId)))),
                   elementId),
                 elementId)
          ELSE r.st

exportElementRows(st, rows) ==
  IF rows = <<>> \/ Failed(st) THEN st
  ELSE exportElementRows(exportElement(st, Head(rows)), Tail(rows))

\* ----------------------------------------------------------------- models
\* Mutant: the model callback issued without consulting the change set.
exportModelContainer_Unscoped(st, model) ==
  trackProgress(Emit(st,
    Event("onExportModel", "model", model, IsUpdateOf(st, st.changes.ids.model, model))))

\* exportModelContainer
exportModelContainer(st, model) ==
  IF NotInChangeset(st, st.changes.ids.model, model) THEN st
  ELSE trackProgress(Emit(st,
         Event("onExportModel", "model", model, IsUpdateOf(st, st.changes.ids.model, model))))

\* Mutant: the query without its "Parent.Id IS NULL" condition.
modelContentRows_AnyParent(modelId, skipRootSubject) ==
  SortedSeq({e \in ElemIds : ModelOf(e) = modelId /\ ~(skipRootSubject /\ e = rootSubjectId)})

\* The rows of the exportModelContents query: the parent-less elements of the model.
modelContentRows(modelId, skipRootSubject) ==
  SortedSeq({e \in ElemIds : ParentOf(e) = 0 /\ ModelOf(e) = modelId
                             /\ ~(skipRootSubject /\ e = rootSubjectId)})

\* exportModelContents
exportModelContents(st, modelId, skipRootSubject) ==
  IF ~visitElements THEN st
  ELSE IF NotInChangeset(st, st.changes.ids.model, modelId) THEN st
  ELSE exportElementRows(Access(st), modelContentRows(modelId, skipRootSubject))

\* The rows of the exportSubModels query, split as the statement callback splits them.
subModelRows(parentModelId) == SortedSeq({m \in ModelIds : ParentModelOf(m) = parentModelId})
definitionModelIds(parentModelId) ==
  SelectSeq(subModelRows(parentModelId), LAMBDA m : IsDefinitionModel(m))
otherModelIds(parentModelId) ==
  SelectSeq(subModelRows(parentModelId), LAMBDA m : ~IsDefinitionModel(m))

\* Mutant: the sub-models exported in the order of the query, not split by kind.
subModelOrder_Unsplit(parentModelId) == subModelRows(parentModelId)

\* The order in which exportSubModels exports the sub-models.
subModelOrder(parentModelId) ==
  definitionModelIds(parentModelId) \o otherModelIds(parentModelId)

RECURSIVE loadModels(_, _)
loadModels(st, rows) ==
  IF rows = <<>> \/ Failed(st) THEN st ELSE loadModels(Load(st, "model", Head(rows)), Tail(rows))

RECURSIVE exportModel(_, _)
RECURSIVE exportModelRows(_, _)

\* exportSubModels
exportSubModels(st, parentModelId) ==
  exportModelRows(loadModels(Access(st), subModelRows(parentModelId)),
                  subModelOrder(parentModelId))

\* Mutant: the sub-models exported also when the modeled element is excluded.
exportModel_KeepSubModels(st, modeledElementId) ==
  LET st0 == Load(st, "model", modeledElementId)
  IN IF IsTemplateModel(modeledElementId) /\ ~wantTemplateModels THEN st0
     ELSE LET r == shouldExportElement(Load(st0, "element", modeledElementId), modeledElementId)
          IN IF r.result
             THEN LET st1 == exportModelContainer(r.st, modeledElementId)
                      st2 == IF visitElements
                             THEN exportModelContents(st1, modeledElementId, FALSE)
                             ELSE st1
                  IN exportSubModels(st2, modeledElementId)
             ELSE exportSubModels(r.st, modeledElementId)

\* exportModel
exportModel(st, modeledElementId) ==
  LET st0 == Load(st, "model", modeledElementId)
  IN IF IsTemplateModel(modeledElementId) /\ ~wantTemplateModels THEN st0
     ELSE LET r == shouldExportElement(Load(st0, "element", modeledElementId), modeledElementId)
          IN IF r.result
             THEN LET st1 == exportModelContainer(r.st, modeledElementId)
                      st2 == IF visitElements
                             THEN exportModelContents(st1, modeledElementId, FALSE)
                             ELSE st1
                  IN exportSubModels(st2, modeledElementId)
             ELSE r.st

exportModelRows(st, rows) ==
  IF rows = <<>> \/ Failed(st) THEN st
  ELSE exportModelRows(exportModel(st, Head(rows)), Tail(rows))

\* ---------------------------------------------------------- relationships
\* exportRelationship
exportRelationship(st, relInstanceId) ==
  IF ~visitRelationships THEN st
  ELSE IF NotInChangeset(st, st.changes.ids.relationship, relInstanceId) THEN st
  ELSE LET st1 == Load(st, "relationship", relInstanceId)
       IN IF \E c \in excludedRelationshipClasses : InstanceOf(RelationshipClass(relInstanceId), c)
          THEN st1
          ELSE IF <<"relationship", relInstanceId>> \in handlerRejects
          THEN Ask(st1, "relationship", relInstanceId)
          ELSE trackProgress(Emit(Ask(st1, "relationship", relInstanceId),
                 Event("onExportRelationship", "relationship", relInstanceId,
                       IsUpdateOf(st, st.changes.ids.relationship, relInstanceId))))

RECURSIVE exportRelationshipRows(_, _)
exportRelationshipRows(st, rows) ==
  IF rows = <<>> \/ Failed(st) THEN st
  ELSE exportRelationshipRows(
         exportRelationship(Load(st, "relationshipProps", Head(rows)), Head(rows)), Tail(rows))

\* exportRelationships
exportRelationships(st, baseRelClassFullName) ==
  IF ~visitRelationships THEN st
  ELSE exportRelationshipRows(Access(st),
         SortedSeq({r \in RelationshipIds : InstanceOf(RelationshipClass(r), baseRelClassFullName)}))

\* ------------------------------------------------------------- top level
\* Mutant: the relationships exported before the models.
exportAll_RelationshipsFirst(st) ==
  exportModel(
    exportRelationships(exportFonts(exportCodeSpecs(st)), "ElementRefersToElements"),
    repositoryModelId)

\* exportAll
exportAll(st) ==
  exportRelationships(
    exportModel(exportFonts(exportCodeSpecs(st)), repositoryModelId),
    "ElementRefersToElements")

\* ChangedInstanceOps.addFromJson
addFromJson(ops, val) ==
  [insertIds |-> ops.insertIds \cup val.insert,
   updateIds |-> ops.updateIds \cup val.update,
   deleteIds |-> ops.deleteIds \cup val.delete]

\* The forEach callback of ChangedInstanceIds.initialize, for one changeset whose
\* extraction gave the result r (not an error): "" adds nothing.
addChangeset(ids, r) ==
  IF r.empty THEN ids
  ELSE [codeSpec |-> addFromJson(ids.codeSpec, r.props.codeSpec),
        model |-> addFromJson(ids.model, r.props.model),
        element |-> addFromJson(ids.element, r.props.element),
        aspect |-> addFromJson(ids.aspect, r.props.aspect),
        relationship |-> addFromJson(ids.relationship, r.props.relationship),
        font |-> addFromJson(ids.font, r.props.font)]

RECURSIVE addChangesets(_, _)
addChangesets(ids, results) ==
  IF results = <<>> THEN ids
  ELSE addChangesets(addChangeset(ids, Head(results)), Tail(results))

\* ChangedInstanceIds.initialize: hubOk is whether the changeset queries and the
\* download succeed, results the extraction result of each changeset of the range.
initialize(hubOk, results) ==
  IF ~hubOk THEN [error |-> "changeset query failed", ids |-> NewChangedInstanceIds]
  ELSE IF \E i \in 1..Len(results) : results[i].error
  THEN [error |-> "Error processing changeset", ids |-> NewChangedInstanceIds]
  ELSE [error |-> "", ids |-> addChangesets(NewChangedInstanceIds, results)]

RECURSIVE emitDeletes(_, _, _, _)
\* for (const id of deleteIds) this.handler.onDelete...(id)
emitDeletes(st, cb, kind, ids) ==
  IF ids = <<>> \/ Failed(st) THEN st
  ELSE emitDeletes(Emit(st, Event(cb, kind, Head(ids), "delete")), cb, kind, Tail(ids))

\* Mutant: element delete notifications issued for the updated ids as well.
exportChangesWalk_DeleteUpdated(st) ==
  LET st1 == exportRelationships(
               exportSubModels(
                 exportModelContents(exportFonts(exportCodeSpecs(st)), repositoryModelId, FALSE),
                 repositoryModelId),
               "ElementRefersToElements")
      st2 == IF visitElements
             THEN emitDeletes(st1, "onDeleteElement", "element",
                              SortedSeq(st1.changes.ids.element.deleteIds
                                          \cup st1.changes.ids.element.updateIds))
             ELSE st1
      st3 == emitDeletes(st2, "onDeleteModel", "model",
                         SortedSeq(st2.changes.ids.model.deleteIds))
  IN IF visitRelationships
     THEN emitDeletes(st3, "onDeleteRelationship", "relationship",
                      SortedSeq(st3.changes.ids.relationship.deleteIds))
     ELSE st3

\* Mutant: the delete notifications issued before the main walk.
exportChangesWalk_DeletesFirst(st) ==
  LET st1 == IF visitElements
             THEN emitDeletes(st, "onDeleteElement", "element",
                              SortedSeq(st.changes.ids.element.deleteIds))
             ELSE st
      st2 == emitDeletes(st1, "onDeleteModel", "model",
                         SortedSeq(st1.changes.ids.model.deleteIds))
      st3 == IF visitRelationships
             THEN emitDeletes(st2, "onDeleteRelationship", "relationship",
                              SortedSeq(st2.changes.ids.relationship.deleteIds))
             ELSE st2
  IN exportRelationships(
       exportSubModels(
         exportModelContents(exportFonts(exportCodeSpecs(st3)), repositoryModelId, FALSE),
         repositoryModelId),
       "ElementRefersToElements")

\* The main walk of exportChanges and its delete notifications, once the change
\* set has been stored.
exportChangesWalk(st) ==
  LET st1 == exportRelationships(
               exportSubModels(
                 exportModelContents(exportFonts(exportCodeSpecs(st)), repositoryModelId, FALSE),
                 repositoryModelId),
               "ElementRefersToElements")
      st2 == IF visitElements
             THEN emitDeletes(st1, "onDeleteElement", "element",
                              SortedSeq(st1.changes.ids.element.deleteIds))
             ELSE st1
      st3 == emitDeletes(st2, "onDeleteModel", "model",
                         SortedSeq(st2.changes.ids.model.deleteIds))
  IN IF visitRelationships
     THEN emitDeletes(st3, "onDeleteRelationship", "relationship",
                      SortedSeq(st3.changes.ids.relationship.deleteIds))
     ELSE st3

\* Mutant: the source is not tested for being a briefcase.
exportChanges_NoBriefcaseCheck(st, hubOk, results) ==
  IF sourceDbKind = "briefcase-no-changeset" THEN exportAll(st)
  ELSE LET c == initialize(hubOk, results)
       IN IF c.error # "" THEN [st EXCEPT !.error = c.error]
          ELSE exportChangesWalk([st EXCEPT !.changes = [defined |-> TRUE, ids |-> c.ids]])

\* Mutant: the Change Record stored before the digest is known to have succeeded.
exportChanges_StoreFirst(st, hubOk, results) ==
  IF sourceDbKind = "snapshot"
  THEN [st EXCEPT !.error = "Must be a briefcase to export changes"]
  ELSE IF sourceDbKind = "briefcase-no-changeset" THEN exportAll(st)
  ELSE LET c == initialize(hubOk, results)
       IN IF c.error # ""
          THEN [st EXCEPT !.error = c.error, !.changes = [defined |-> TRUE, ids |-> c.ids]]
          ELSE exportChangesWalk([st EXCEPT !.changes = [defined |-> TRUE, ids |-> c.ids]])

\* exportChanges
exportChanges(st, hubOk, results) ==
  IF sourceDbKind = "snapshot"
  THEN [st EXCEPT !.error = "Must be a briefcase to export changes"]
  ELSE IF sourceDbKind = "briefcase-no-changeset" THEN exportAll(st)
  ELSE LET c == initialize(hubOk, results)
       IN IF c.error # "" THEN [st EXCEPT !.error = c.error]
          ELSE exportChangesWalk([st EXCEPT !.changes = [defined |-> TRUE, ids |-> c.ids]])

\* ------------------------------------------------------- changeset ranges
\* What one changeset of the range reports: nothing (""), an extraction error, or
\* one changed instance <<kind, op, id>>.
NoProps == [insert |-> {}, update |-> {}, delete |-> {}]
NoChangedProps ==
  [codeSpec |-> NoProps, model |-> NoProps, element |-> NoProps, aspect |-> NoProps,
   relationship |-> NoProps, font |-> NoProps]

OneProps(op, id) ==
  [insert |-> IF op = "insert" THEN {id} ELSE {},
   update |-> IF op = "update" THEN {id} ELSE {},
   delete |-> IF op = "delete" THEN {id} ELSE {}]

ChangedInstance(kind, op, id) ==
  [error |-> FALSE, empty |-> FALSE,
   props |-> [NoChangedProps EXCEPT ![kind] = OneProps(op, id)]]

\* An element the range deleted: it is no longer in the source.
DeletedElementId == NumElems + 1

\* The changed instances the changesets of the hub report: an update of any
\* element or model, an insert of element 2 and of its model, a delete of that
\* model and of the deleted element, and an update and a delete of one aspect,
\* relationship, code spec and font.
ChangedInstances ==
  {ChangedInstance("element", "update", e) : e \in ElemIds}
    \cup {ChangedInstance("model", "update", m) : m \in ModelIds}
    \cup {ChangedInstance(k, "insert", 2) : k \in {"element", "model"}}
    \cup {ChangedInstance("model", "delete", 2),
          ChangedInstance("element", "delete", DeletedElementId)}
    \cup {ChangedInstance("aspect", op, 102) : op \in {"update", "delete"}}
    \cup {ChangedInstance(k, op, 1) : k \in {"relationship", "codeSpec", "font"},
                                      op \in {"update", "delete"}}

\* extractChangedInstanceIdsFromChangeSet reports an error.
ExtractionError == [error |-> TRUE, empty |-> FALSE, props |-> NoChangedProps]

ChangesetResults ==
  ChangedInstances
    \cup {ExtractionError,
          [error |-> FALSE, empty |-> TRUE, props |-> NoChangedProps]}

\* ------------------------------------------------ transform/import pipeline
PipeEntities == 1..NumEntities

\* Kind of a source entity: a model, two elements, a relationship, repeating.
EntityKind(e) ==
  CASE e % 4 = 1 -> "model"
    [] e % 4 = 0 -> "relationship"
    [] OTHER -> "element"

\* The entities e refers to: the first element of each group refers forward to
\* the second (a navigation property); with backRefs the second is scoped, by its
\* code, to the first; a relationship refers to both elements of its group.
RefsOf(e) ==
  (CASE e % 4 = 2 -> {e + 1}
     [] e % 4 = 3 -> IF backRefs THEN {e - 1} ELSE {}
     [] e % 4 = 0 -> {e - 2, e - 1}
     [] OTHER -> {}) \cap {r \in PipeEntities : srcVersion[r] > 0}

\* The synchronization scope of the run: the scope given to its source, or the
\* default scope.
Scope == IF teamScopes THEN runSource ELSE "scope"
\* The reserved invalid identifier.
Invalid == 0

NoStats == [inserted |-> 0, updated |-> 0, deleted |-> 0, provenanceWrites |-> 0]

\* The Provenance Records of the target for (scope, sourceId).
ProvenanceOf_AnyScope(scope, sourceId) ==
  {p \in provenance : p.sourceId = sourceId}

ProvenanceOf(scope, sourceId) ==
  {p \in provenance : p.scope = scope /\ p.sourceId = sourceId}

\* Mutant: the lookup answers from the run's map alone.
findTargetElementId_NoFallback(sourceId) ==
  IF sourceId \in DOMAIN remapTable THEN remapTable[sourceId] ELSE Invalid

\* findTargetElementId: the run's map first, then the Provenance Records of the
\* target by (scope, sourceId), then invalid.
findTargetElementId(sourceId) ==
  IF sourceId \in DOMAIN remapTable /\ remapTable[sourceId] # Invalid THEN remapTable[sourceId]
  ELSE IF ProvenanceOf(Scope, sourceId) # {}
  THEN (CHOOSE p \in ProvenanceOf(Scope, sourceId) : TRUE).targetId
  ELSE Invalid

\* findTargetCodeSpecId: the code-spec namespace of the run's map, or invalid.
findTargetCodeSpecId(sourceId) ==
  IF sourceId \in DOMAIN codeSpecRemap THEN codeSpecRemap[sourceId] ELSE Invalid

\* The counts of the target the host compares between runs.
TargetCount(kind) == Cardinality({t \in targetDb : t.kind = kind})
TargetCounts ==
  [elements |-> TargetCount("element"), relationships |-> TargetCount("relationship"),
   models |-> TargetCount("model"), provenance |-> Cardinality(provenance)]

\* The state of the pipeline before any transformation: a source at version 1,
\* an empty target, one source transformed under the default scope.
PipelineInit ==
  /\ srcVersion = [e \in PipeEntities |-> 1]
  /\ edits = 0
  /\ sourceChanged = FALSE
  /\ pipeExcluded \in {{}} \cup {{e} : e \in {x \in PipeEntities : x % 4 = 3}}
  /\ targetDb = {}
  /\ provenance = {}
  /\ remapTable = [e \in PipeEntities |-> Invalid]
  /\ entityState = [e \in PipeEntities |-> "None"]
  /\ stats = NoStats
  /\ phase = "idle"
  /\ runs = 0
  /\ nextId = 1
  /\ baseline = [clean |-> FALSE, counts |-> [elements |-> 0, relationships |-> 0,
                                             models |-> 0, provenance |-> 0]]
  /\ backRefs = FALSE
  /\ noProvenance = FALSE
  /\ pipeSources = {"A"}
  /\ teamScopes = FALSE
  /\ runSource = "none"
  /\ scopeSource = [s \in {"scope", "A", "B"} |-> "none"]
  /\ deferralQueue = {}
  /\ pipeError = [kind |-> "", entities |-> {}]
  /\ imports = <<>>
  /\ codeSpecRemap = [c \in CodeSpecIds |-> Invalid]
  /\ remapCalls = <<>>

\* No transformation is attached to the traverser.
NoPipeline == PipelineInit /\ pipeExcluded = {}

Running == phase \in {"primary", "sweep", "deletes"}

\* What a transformation is constructed with.
pipeConfig == <<pipeExcluded, backRefs, noProvenance, pipeSources, teamScopes>>

\* The host edits the source between two transformations.
updateSource ==
  /\ ~Running /\ edits < MaxEdits
  /\ \E e \in PipeEntities :
       /\ srcVersion[e] > 0
       /\ srcVersion' = [srcVersion EXCEPT ![e] = @ + 1]
  /\ edits' = edits + 1
  /\ sourceChanged' = TRUE
  /\ UNCHANGED <<pipeConfig, targetDb, provenance, remapTable, entityState, stats,
                 phase, runs, nextId, baseline, runSource, scopeSource, deferralQueue,
                 pipeError, imports, codeSpecRemap, remapCalls>>

\* The host deletes a source entity that nothing refers to.
deleteSource ==
  /\ ~Running /\ edits < MaxEdits
  /\ \E e \in PipeEntities :
       /\ srcVersion[e] > 0
       /\ ~\E o \in PipeEntities : srcVersion[o] > 0 /\ e \in RefsOf(o)
       /\ srcVersion' = [srcVersion EXCEPT ![e] = 0]
  /\ edits' = edits + 1
  /\ sourceChanged' = TRUE
  /\ UNCHANGED <<pipeConfig, targetDb, provenance, remapTable, entityState, stats,
                 phase, runs, nextId, baseline, runSource, scopeSource, deferralQueue,
                 pipeError, imports, codeSpecRemap, remapCalls>>

\* Mutant: a transformation that does not look at the source the target records
\* for its scope.
processAll_NoScopeCheck ==
  /\ ~Running /\ runs < MaxRuns
  /\ \E src \in pipeSources :
       /\ runSource' = src
       /\ scopeSource' = [scopeSource EXCEPT ![IF teamScopes THEN src ELSE "scope"] = src]
       /\ baseline' = [clean |-> phase = "done" /\ ~sourceChanged /\ runSource = src,
                       counts |-> TargetCounts]
  /\ phase' = "primary"
  /\ pipeError' = [kind |-> "", entities |-> {}]
  /\ entityState' = [e \in PipeEntities |-> IF srcVersion[e] > 0 THEN "Pending" ELSE "None"]
  /\ remapTable' = [e \in PipeEntities |-> Invalid]
  /\ codeSpecRemap' = [c \in CodeSpecIds |-> Invalid]
  /\ remapCalls' = <<>>
  /\ deferralQueue' = {}
  /\ imports' = <<>>
  /\ stats' = NoStats
  /\ sourceChanged' = FALSE
  /\ runs' = runs + 1
  /\ UNCHANGED <<srcVersion, edits, pipeConfig, targetDb, provenance, nextId>>

\* processAll begins: a fresh Remap Context, Deferral Queue and importer, every
\* source entity Pending; a configuration error if the target records another
\* source for the scope of the run.
processAll ==
  /\ ~Running /\ runs < MaxRuns
  /\ \E src \in pipeSources :
       LET scope == IF teamScopes THEN src ELSE "scope"
           conflict == scopeSource[scope] \notin {"none", src}
       IN /\ runSource' = src
          /\ phase' = IF conflict THEN "failed" ELSE "primary"
          /\ pipeError' = IF conflict
                          THEN [kind |-> "conflicting provenance scope", entities |-> {}]
                          ELSE [kind |-> "", entities |-> {}]
          /\ scopeSource' = IF conflict THEN scopeSource ELSE [scopeSource EXCEPT ![scope] = src]
          /\ entityState' = [e \in PipeEntities |->
                               IF srcVersion[e] > 0 /\ ~conflict THEN "Pending" ELSE "None"]
          /\ baseline' = [clean |-> phase = "done" /\ ~sourceChanged /\ runSource = src,
                          counts |-> TargetCounts]
  /\ remapTable' = [e \in PipeEntities |-> Invalid]
  /\ codeSpecRemap' = [c \in CodeSpecIds |-> Invalid]
  /\ remapCalls' = <<>>
  /\ deferralQueue' = {}
  /\ imports' = <<>>
  /\ stats' = NoStats
  /\ sourceChanged' = FALSE
  /\ runs' = runs + 1
  /\ UNCHANGED <<srcVersion, edits, pipeConfig, targetDb, provenance, nextId>>

\* Mutant: the upsert without the comparison against the Provenance Record: an
\* entity already in the target is updated again.
importEntity_NoVersionCheck(e) ==
  LET \* The record of one upsert of e: whether e came from the Deferral Queue, the
      \* ids it was blocked on, the target identifiers written for its references
      \* and whether a Provenance Record was written with it.
      upsert == [id |-> e,
                 deferred |-> \E d \in deferralQueue : d.id = e,
                 blocking |-> UNION {d.blocking : d \in {q \in deferralQueue : q.id = e}},
                 refs |-> {findTargetElementId(r) : r \in RefsOf(e)},
                 provenance |-> ~noProvenance]
      \* The insert of e into the target, with its Provenance Record unless suppressed.
      insertEntity ==
        /\ targetDb' = targetDb \cup {[id |-> nextId, kind |-> EntityKind(e)]}
        /\ provenance' = IF noProvenance THEN provenance
                         ELSE provenance \cup {[scope |-> Scope, sourceId |-> e,
                                                targetId |-> nextId, version |-> srcVersion[e]]}
        /\ remapTable' = [remapTable EXCEPT ![e] = nextId]
        /\ nextId' = nextId + 1
        /\ stats' = [stats EXCEPT !.inserted = @ + 1,
                                  !.provenanceWrites = @ + (IF noProvenance THEN 0 ELSE 1)]
        /\ entityState' = [entityState EXCEPT ![e] = "Processed"]
        /\ imports' = Append(imports, upsert)
      \* The update of the target entity of e and of its Provenance Record p.
      updateEntity(p) ==
        /\ provenance' = (provenance \ {p}) \cup {[p EXCEPT !.version = srcVersion[e]]}
        /\ remapTable' = [remapTable EXCEPT ![e] = p.targetId]
        /\ stats' = [stats EXCEPT !.updated = @ + 1, !.provenanceWrites = @ + 1]
        /\ entityState' = [entityState EXCEPT ![e] = "Processed"]
        /\ imports' = Append(imports, upsert)
        /\ UNCHANGED <<targetDb, nextId>>
  IN IF ProvenanceOf(Scope, e) = {}
     THEN insertEntity
     ELSE updateEntity(CHOOSE q \in ProvenanceOf(Scope, e) : TRUE)

\* Mutant: an entity found up to date is reported Skipped after its upsert was
\* written all the same.
importEntity_UpsertOnSkip(e) ==
  LET \* The record of one upsert of e: whether e came from the Deferral Queue, the
      \* ids it was blocked on, the target identifiers written for its references
      \* and whether a Provenance Record was written with it.
      upsert == [id |-> e,
                 deferred |-> \E d \in deferralQueue : d.id = e,
                 blocking |-> UNION {d.blocking : d \in {q \in deferralQueue : q.id = e}},
                 refs |-> {findTargetElementId(r) : r \in RefsOf(e)},
                 provenance |-> ~noProvenance]
      \* The insert of e into the target, with its Provenance Record unless suppressed.
      insertEntity ==
        /\ targetDb' = targetDb \cup {[id |-> nextId, kind |-> EntityKind(e)]}
        /\ provenance' = IF noProvenance THEN provenance
                         ELSE provenance \cup {[scope |-> Scope, sourceId |-> e,
                                                targetId |-> nextId, version |-> srcVersion[e]]}
        /\ remapTable' = [remapTable EXCEPT ![e] = nextId]
        /\ nextId' = nextId + 1
        /\ stats' = [stats EXCEPT !.inserted = @ + 1,
                                  !.provenanceWrites = @ + (IF noProvenance THEN 0 ELSE 1)]
        /\ entityState' = [entityState EXCEPT ![e] = "Processed"]
        /\ imports' = Append(imports, upsert)
      \* The update of the target entity of e and of its Provenance Record p.
      updateEntity(p) ==
        /\ provenance' = (provenance \ {p}) \cup {[p EXCEPT !.version = srcVersion[e]]}
        /\ remapTable' = [remapTable EXCEPT ![e] = p.targetId]
        /\ stats' = [stats EXCEPT !.updated = @ + 1, !.provenanceWrites = @ + 1]
        /\ entityState' = [entityState EXCEPT ![e] = "Processed"]
        /\ imports' = Append(imports, upsert)
        /\ UNCHANGED <<targetDb, nextId>>
  IN IF ProvenanceOf(Scope, e) = {}
     THEN insertEntity
     ELSE LET p == CHOOSE q \in ProvenanceOf(Scope, e) : TRUE
          IN IF p.version = srcVersion[e]
             THEN /\ remapTable' = [remapTable EXCEPT ![e] = p.targetId]
                  /\ entityState' = [entityState EXCEPT ![e] = "Skipped"]
                  /\ imports' = Append(imports, upsert)
                  /\ UNCHANGED <<targetDb, provenance, nextId, stats>>
             ELSE updateEntity(p)

\* One entity whose references are resolved reaches the importer: an insert with
\* its Provenance Record if the target has none for it, a no-op (Skipped) if
\* the record has the source's version, an update otherwise.
importEntity(e) ==
  LET \* The record of one upsert of e: whether e came from the Deferral Queue, the
      \* ids it was blocked on, the target identifiers written for its references
      \* and whether a Provenance Record was written with it.
      upsert == [id |-> e,
                 deferred |-> \E d \in deferralQueue : d.id = e,
                 blocking |-> UNION {d.blocking : d \in {q \in deferralQueue : q.id = e}},
                 refs |-> {findTargetElementId(r) : r \in RefsOf(e)},
                 provenance |-> ~noProvenance]
      \* The insert of e into the target, with its Provenance Record unless suppressed.
      insertEntity ==
        /\ targetDb' = targetDb \cup {[id |-> nextId, kind |-> EntityKind(e)]}
        /\ provenance' = IF noProvenance THEN provenance
                         ELSE provenance \cup {[scope |-> Scope, sourceId |-> e,
                                                targetId |-> nextId, version |-> srcVersion[e]]}
        /\ remapTable' = [remapTable EXCEPT ![e] = nextId]
        /\ nextId' = nextId + 1
        /\ stats' = [stats EXCEPT !.inserted = @ + 1,
                                  !.provenanceWrites = @ + (IF noProvenance THEN 0 ELSE 1)]
        /\ entityState' = [entityState EXCEPT ![e] = "Processed"]
        /\ imports' = Append(imports, upsert)
      \* The update of the target entity of e and of its Provenance Record p.
      updateEntity(p) ==
        /\ provenance' = (provenance \ {p}) \cup {[p EXCEPT !.version = srcVersion[e]]}
        /\ remapTable' = [remapTable EXCEPT ![e] = p.targetId]
        /\ stats' = [stats EXCEPT !.updated = @ + 1, !.provenanceWrites = @ + 1]
        /\ entityState' = [entityState EXCEPT ![e] = "Processed"]
        /\ imports' = Append(imports, upsert)
        /\ UNCHANGED <<targetDb, nextId>>
  IN IF ProvenanceOf(Scope, e) = {}
     THEN insertEntity
     ELSE LET p == CHOOSE q \in ProvenanceOf(Scope, e) : TRUE
          IN IF p.version = srcVersion[e]
             THEN /\ remapTable' = [remapTable EXCEPT ![e] = p.targetId]
                  /\ entityState' = [entityState EXCEPT ![e] = "Skipped"]
                  /\ UNCHANGED <<targetDb, provenance, nextId, stats, imports>>
             ELSE updateEntity(p)

Resolved(e) == \A r \in RefsOf(e) : findTargetElementId(r) # Invalid

\* The primary pass hands the next Pending entity (in traversal order) to the
\* pipeline: Excluded, Deferred on an unresolved reference (a Deferred Item with
\* the ids that block it), or imported.
processEntity ==
  /\ phase = "primary"
  /\ \E e \in PipeEntities :
       /\ entityState[e] = "Pending"
       /\ \A o \in PipeEntities : entityState[o] = "Pending" => e <= o
       /\ IF e \in pipeExcluded
          THEN /\ entityState' = [entityState EXCEPT ![e] = "Excluded"]
               /\ UNCHANGED <<targetDb, provenance, remapTable, nextId, stats, imports,
                              deferralQueue>>
          ELSE IF ~Resolved(e)
          THEN /\ entityState' = [entityState EXCEPT ![e] = "Deferred"]
               /\ deferralQueue' = deferralQueue \cup
                    {[id |-> e,
                      blocking |-> {r \in RefsOf(e) : findTargetElementId(r) = Invalid}]}
               /\ UNCHANGED <<targetDb, provenance, remapTable, nextId, stats, imports>>
          ELSE importEntity(e) /\ UNCHANGED deferralQueue
  /\ UNCHANGED <<srcVersion, edits, sourceChanged, pipeConfig, phase, runs, baseline,
                 runSource, scopeSource, pipeError, codeSpecRemap, remapCalls>>

\* The primary pass is over: the sweeps of the deferral queue begin.
endPrimaryPass ==
  /\ phase = "primary"
  /\ \A e \in PipeEntities : entityState[e] # "Pending"
  /\ phase' = "sweep"
  /\ UNCHANGED <<srcVersion, edits, sourceChanged, pipeConfig, targetDb, provenance,
                 remapTable, entityState, stats, runs, nextId, baseline, runSource,
                 scopeSource, deferralQueue, pipeError, imports, codeSpecRemap, remapCalls>>

\* Mutant: a sweep that processes a Deferred Item without rechecking its
\* blocking ids.
processDeferred_NoRecheck ==
  /\ phase = "sweep"
  /\ \E d \in deferralQueue :
       /\ importEntity(d.id)
       /\ deferralQueue' = deferralQueue \ {d}
  /\ UNCHANGED <<srcVersion, edits, sourceChanged, pipeConfig, phase, runs, baseline,
                 runSource, scopeSource, pipeError, codeSpecRemap, remapCalls>>

\* A sweep processes a Deferred Item whose blocking ids all have Remap Entries
\* and removes it from the queue.
processDeferred ==
  /\ phase = "sweep"
  /\ \E d \in deferralQueue :
       /\ (\A r \in d.blocking : findTargetElementId(r) # Invalid)
       /\ importEntity(d.id)
       /\ deferralQueue' = deferralQueue \ {d}
  /\ UNCHANGED <<srcVersion, edits, sourceChanged, pipeConfig, phase, runs, baseline,
                 runSource, scopeSource, pipeError, codeSpecRemap, remapCalls>>

\* Mutant: the sweeps end by dropping what is left of the queue.
endSweeps_DropStuck ==
  /\ phase = "sweep"
  /\ ~\E d \in deferralQueue : (\A r \in d.blocking : findTargetElementId(r) # Invalid)
  /\ phase' = "deletes"
  /\ deferralQueue' = {}
  /\ entityState' = [e \in PipeEntities |->
                       IF entityState[e] = "Deferred" THEN "Skipped" ELSE entityState[e]]
  /\ UNCHANGED <<srcVersion, edits, sourceChanged, pipeConfig, targetDb, provenance,
                 remapTable, stats, runs, nextId, baseline, runSource, scopeSource,
                 pipeError, imports, codeSpecRemap, remapCalls>>

\* A full sweep made no progress: on to the deletes when the queue is empty, an
\* "unresolved predecessors" failure of the run, naming the entities of the
\* queue, otherwise.
endSweeps ==
  /\ phase = "sweep"
  /\ ~\E d \in deferralQueue : (\A r \in d.blocking : findTargetElementId(r) # Invalid)
  /\ IF deferralQueue # {}
     THEN /\ phase' = "failed"
          /\ pipeError' = [kind |-> "unresolved predecessors",
                           entities |-> {d.id : d \in deferralQueue}]
          /\ entityState' = [e \in PipeEntities |->
                               IF entityState[e] = "Deferred" THEN "Failed" ELSE entityState[e]]
     ELSE phase' = "deletes" /\ UNCHANGED <<entityState, pipeError>>
  /\ UNCHANGED <<srcVersion, edits, sourceChanged, pipeConfig, targetDb, provenance,
                 remapTable, stats, runs, nextId, baseline, runSource, scopeSource,
                 deferralQueue, imports, codeSpecRemap, remapCalls>>

\* The run ends by deleting from the target what its Provenance Records trace to
\* source entities that no longer exist.
detectDeletes ==
  /\ phase = "deletes"
  /\ LET gone == {p \in provenance : p.scope = Scope /\ srcVersion[p.sourceId] = 0}
     IN /\ provenance' = provenance \ gone
        /\ targetDb' = {t \in targetDb : ~\E p \in gone : p.targetId = t.id}
        /\ stats' = [stats EXCEPT !.deleted = @ + Cardinality(gone)]
  /\ phase' = "done"
  /\ UNCHANGED <<srcVersion, edits, sourceChanged, pipeConfig, remapTable, entityState,
                 runs, nextId, baseline, runSource, scopeSource, deferralQueue,
                 pipeError, imports, codeSpecRemap, remapCalls>>

\* ------------------------------------------------------- the Remap Context
\* Mutant: an explicit remap that keeps the entry a source already has.
remapElement_FirstWins ==
  /\ phase \in {"idle", "done"} /\ Len(remapCalls) < MaxRemaps
  /\ \E s \in {e \in PipeEntities : EntityKind(e) = "element"},
        t \in {e \in PipeEntities : EntityKind(e) = "element"} \cup {NumEntities + 1} :
       /\ remapTable' = IF remapTable[s] = Invalid THEN [remapTable EXCEPT ![s] = t]
                        ELSE remapTable
       /\ remapCalls' = Append(remapCalls,
            [op |-> "remapElement", source |-> s, name |-> "", target |-> t])
  /\ pipeError' = [kind |-> "", entities |-> {}]
  /\ UNCHANGED <<srcVersion, edits, sourceChanged, pipeConfig, targetDb, provenance,
                 entityState, stats, phase, runs, nextId, baseline, runSource, scopeSource,
                 deferralQueue, imports, codeSpecRemap>>

\* Mutant: an explicit remap that also enters the target as a source.
remapElement_BothWays ==
  /\ phase \in {"idle", "done"} /\ Len(remapCalls) < MaxRemaps
  /\ \E s \in {e \in PipeEntities : EntityKind(e) = "element"},
        t \in {e \in PipeEntities : EntityKind(e) = "element"} \cup {NumEntities + 1} :
       /\ remapTable' = [x \in PipeEntities |->
                           IF x = s THEN t ELSE IF x = t THEN s ELSE remapTable[x]]
       /\ remapCalls' = Append(remapCalls,
            [op |-> "remapElement", source |-> s, name |-> "", target |-> t])
  /\ pipeError' = [kind |-> "", entities |-> {}]
  /\ UNCHANGED <<srcVersion, edits, sourceChanged, pipeConfig, targetDb, provenance,
                 entityState, stats, phase, runs, nextId, baseline, runSource, scopeSource,
                 deferralQueue, imports, codeSpecRemap>>

\* remapElement(sourceId, targetId): the entry of sourceId becomes targetId,
\* whatever it was and whether or not the target has such an entity.  The host
\* makes its explicit remap calls on the Remap Context of a transformation that
\* has not run yet or that has completed; it
\* remaps source elements, to the ids of elements or to an id the target does
\* not have.
remapElement ==
  /\ phase \in {"idle", "done"} /\ Len(remapCalls) < MaxRemaps
  /\ \E s \in {e \in PipeEntities : EntityKind(e) = "element"},
        t \in {e \in PipeEntities : EntityKind(e) = "element"} \cup {NumEntities + 1} :
       /\ remapTable' = [remapTable EXCEPT ![s] = t]
       /\ remapCalls' = Append(remapCalls,
            [op |-> "remapElement", source |-> s, name |-> "", target |-> t])
  /\ pipeError' = [kind |-> "", entities |-> {}]
  /\ UNCHANGED <<srcVersion, edits, sourceChanged, pipeConfig, targetDb, provenance,
                 entityState, stats, phase, runs, nextId, baseline, runSource, scopeSource,
                 deferralQueue, imports, codeSpecRemap>>

\* Mutant: a remapCodeSpec that ignores a source name it does not find.
remapCodeSpec_Lenient ==
  /\ phase \in {"idle", "done"} /\ Len(remapCalls) < MaxRemaps
  /\ \E sourceName \in {CodeSpecName(c) : c \in CodeSpecIds} \cup {"SourceNotFound"},
        t \in CodeSpecIds :
       /\ remapCalls' = Append(remapCalls,
            [op |-> "remapCodeSpec", source |-> 0, name |-> sourceName, target |-> t])
       /\ codeSpecRemap' = [c \in CodeSpecIds |->
                              IF CodeSpecName(c) = sourceName THEN t ELSE codeSpecRemap[c]]
  /\ pipeError' = [kind |-> "", entities |-> {}]
  /\ UNCHANGED <<srcVersion, edits, sourceChanged, pipeConfig, targetDb, provenance,
                 remapTable, entityState, stats, phase, runs, nextId, baseline, runSource,
                 scopeSource, deferralQueue, imports>>

\* remapCodeSpec(sourceName, targetName): a hard error if the source has no code
\* spec of that name, the entry of the source code spec otherwise.
remapCodeSpec ==
  /\ phase \in {"idle", "done"} /\ Len(remapCalls) < MaxRemaps
  /\ \E sourceName \in {CodeSpecName(c) : c \in CodeSpecIds} \cup {"SourceNotFound"},
        t \in CodeSpecIds :
       LET ids == {c \in CodeSpecIds : CodeSpecName(c) = sourceName}
       IN /\ remapCalls' = Append(remapCalls,
               [op |-> "remapCodeSpec", source |-> 0, name |-> sourceName, target |-> t])
          /\ IF ids = {}
             THEN /\ pipeError' = [kind |-> "code spec not found", entities |-> {}]
                  /\ UNCHANGED codeSpecRemap
             ELSE /\ pipeError' = [kind |-> "", entities |-> {}]
                  /\ codeSpecRemap' = [c \in CodeSpecIds |->
                                         IF c \in ids THEN t ELSE codeSpecRemap[c]]
  /\ UNCHANGED <<srcVersion, edits, sourceChanged, pipeConfig, targetDb, provenance,
                 remapTable, entityState, stats, phase, runs, nextId, baseline, runSource,
                 scopeSource, deferralQueue, imports>>

\* ---------------------------------------------------------------- options
\* interface IModelTraverserOptions: the option sets the host chooses from: the
\* defaults, template models unwanted, or both visit switches off.
OptionSets ==
  {[wantTemplateModels |-> TRUE, visitElements |-> TRUE, visitRelationships |-> TRUE],
   [wantTemplateModels |-> FALSE, visitElements |-> TRUE, visitRelationships |-> TRUE],
   [wantTemplateModels |-> TRUE, visitElements |-> FALSE, visitRelationships |-> FALSE]}

\* Number of exclusion rules registered so far (handler rejections included).
NumRules ==
  Cardinality(excludedCodeSpecNames) + Cardinality(excludedElementIds)
    + Cardinality(excludedElementCategoryIds) + Cardinality(excludedElementClasses)
    + Cardinality(excludedElementAspectClassFullNames)
    + Cardinality(excludedRelationshipClasses) + Cardinality(handlerRejects)

\* constructor(sourceDb): no rule, no change set, counter 0; any source and any
\* of the option sets.
TraverserFields ==
  /\ sourceDbKind \in {"snapshot", "briefcase", "briefcase-no-changeset"}
  /\ place \in [2..NumElems -> {"child", "top"}]
  /\ \E o \in OptionSets :
       /\ wantTemplateModels = o.wantTemplateModels
       /\ visitElements = o.visitElements
       /\ visitRelationships = o.visitRelationships
  /\ excludedCodeSpecNames = {}
  /\ excludedElementIds = {}
  /\ excludedElementCategoryIds = {}
  /\ excludedElementClasses = {}
  /\ excludedElementAspectClasses = {}
  /\ excludedElementAspectClassFullNames = {}
  /\ excludedRelationshipClasses = {}
  /\ handlerRejects = {}
  /\ progressCounter = 0
  /\ sourceDbChanges = NoChanges
  /\ log = <<>>
  /\ asked = {}
  /\ loaded = {}
  /\ excludedLog = {}
  /\ accesses = 0
  /\ failedAt = -1
  /\ lastCall = [name |-> "none", arg |-> 0, error |-> ""]
  /\ calls = 0

\* A traverser with the default progress interval and schema option, on which
\* the host makes one top-level call.
TraverserInit ==
  /\ TraverserFields
  /\ progressInterval = 1000
  /\ wantSystemSchemas = FALSE
  /\ asyncHandler = FALSE
  /\ callLimit = 1

dbVars == <<sourceDbKind, place, wantTemplateModels, visitElements, visitRelationships,
            progressInterval, wantSystemSchemas, asyncHandler, callLimit>>
ruleVars == <<excludedCodeSpecNames, excludedElementIds, excludedElementCategoryIds,
              excludedElementClasses, excludedElementAspectClasses,
              excludedElementAspectClassFullNames, excludedRelationshipClasses,
              handlerRejects>>
runVars == <<progressCounter, sourceDbChanges, log, asked, loaded, excludedLog, accesses,
             failedAt, lastCall, calls>>

\* The host registers its rules before it exports.
CanAddRule == calls = 0 /\ NumRules < MaxRules

\* excludeCodeSpec
excludeCodeSpec ==
  /\ CanAddRule
  /\ \E id \in CodeSpecIds : excludedCodeSpecNames' = excludedCodeSpecNames \cup {CodeSpecName(id)}
  /\ UNCHANGED <<uiVars, pipeVars, dbVars, runVars, excludedElementIds, excludedElementCategoryIds,
                 excludedElementClasses, excludedElementAspectClasses,
                 excludedElementAspectClassFullNames, excludedRelationshipClasses,
                 handlerRejects>>

\* excludeElement
excludeElement ==
  /\ CanAddRule
  /\ \E e \in ElemIds : excludedElementIds' = excludedElementIds \cup {e}
  /\ UNCHANGED <<uiVars, pipeVars, dbVars, runVars, excludedCodeSpecNames, excludedElementCategoryIds,
                 excludedElementClasses, excludedElementAspectClasses,
                 excludedElementAspectClassFullNames, excludedRelationshipClasses,
                 handlerRejects>>

\* excludeElementsInCategory
excludeElementsInCategory ==
  /\ CanAddRule
  /\ \E c \in CategoryIds : excludedElementCategoryIds' = excludedElementCategoryIds \cup {c}
  /\ UNCHANGED <<uiVars, pipeVars, dbVars, runVars, excludedCodeSpecNames, excludedElementIds,
                 excludedElementClasses, excludedElementAspectClasses,
                 excludedElementAspectClassFullNames, excludedRelationshipClasses,
                 handlerRejects>>

\* excludeElementClass
excludeElementClass ==
  /\ CanAddRule
  /\ \E c \in ExcludableElementClasses :
       excludedElementClasses' = excludedElementClasses \cup {c}
  /\ UNCHANGED <<uiVars, pipeVars, dbVars, runVars, excludedCodeSpecNames, excludedElementIds,
                 excludedElementCategoryIds, excludedElementAspectClasses,
                 excludedElementAspectClassFullNames, excludedRelationshipClasses,
                 handlerRejects>>

\* excludeElementAspectClass
excludeElementAspectClass ==
  /\ CanAddRule
  /\ \E c \in ExcludableAspectClasses :
       /\ excludedElementAspectClassFullNames' = excludedElementAspectClassFullNames \cup {c}
       /\ excludedElementAspectClasses' = excludedElementAspectClasses \cup {c}
  /\ UNCHANGED <<uiVars, pipeVars, dbVars, runVars, excludedCodeSpecNames, excludedElementIds,
                 excludedElementCategoryIds, excludedElementClasses,
                 excludedRelationshipClasses, handlerRejects>>

\* excludeRelationshipClass
excludeRelationshipClass ==
  /\ CanAddRule
  /\ \E c \in ExcludableRelationshipClasses :
       excludedRelationshipClasses' = excludedRelationshipClasses \cup {c}
  /\ UNCHANGED <<uiVars, pipeVars, dbVars, runVars, excludedCodeSpecNames, excludedElementIds,
                 excludedElementCategoryIds, excludedElementClasses,
                 excludedElementAspectClasses, excludedElementAspectClassFullNames,
                 handlerRejects>>

\* The handler in use rejects one entity in its shouldExport* predicate.
HandlerRejectable == {<<"element", e>> : e \in ElemIds}

registerHandler ==
  /\ CanAddRule
  /\ \E x \in HandlerRejectable : handlerRejects' = handlerRejects \cup {x}
  /\ UNCHANGED <<uiVars, pipeVars, dbVars, runVars, excludedCodeSpecNames, excludedElementIds,
                 excludedElementCategoryIds, excludedElementClasses,
                 excludedElementAspectClasses, excludedElementAspectClassFullNames,
                 excludedRelationshipClasses>>

\* registerHandler with a handler whose shouldExportSchema rejects one schema.
registerSchemaHandler ==
  /\ CanAddRule
  /\ \E s \in SchemaIds : handlerRejects' = handlerRejects \cup {<<"schema", s>>}
  /\ UNCHANGED <<uiVars, pipeVars, dbVars, runVars, excludedCodeSpecNames, excludedElementIds,
                 excludedElementCategoryIds, excludedElementClasses,
                 excludedElementAspectClasses, excludedElementAspectClassFullNames,
                 excludedRelationshipClasses>>

\* A top-level call of the host: the run record before it, and the state after it.
BeginRun == NewRun(progressCounter, sourceDbChanges)

EndRun(st, name, arg) ==
  \E r \in {st} :
    /\ log' = r.log
    /\ asked' = r.asked
    /\ loaded' = r.loaded
    /\ excludedLog' = r.excluded
    /\ accesses' = r.accesses
    /\ failedAt' = r.failedAt
    /\ progressCounter' = r.counter
    /\ sourceDbChanges' = r.changes
    /\ lastCall' = [name |-> name, arg |-> arg, error |-> r.error]
    /\ calls' = calls + 1
    /\ UNCHANGED <<uiVars, pipeVars, dbVars, ruleVars>>

\* The host has top-level calls left to make on the traverser.
CanCall == calls < callLimit

CallExportAll == CanCall /\ EndRun(exportAll(BeginRun), "exportAll", 0)

CallExportModel ==
  CanCall /\ \E m \in ModelIds : EndRun(exportModel(BeginRun, m), "exportModel", m)

CallExportModelContents ==
  CanCall /\ \E m \in ModelIds :
    EndRun(exportModelContents(BeginRun, m, FALSE), "exportModelContents", m)

CallExportElement ==
  CanCall /\ \E e \in ElemIds : EndRun(exportElement(BeginRun, e), "exportElement", e)

CallExportChildElements ==
  CanCall /\ \E e \in ElemIds :
    EndRun(exportChildElements(BeginRun, e), "exportChildElements", e)

CallExportRelationships ==
  CanCall /\ EndRun(exportRelationships(BeginRun, "ElementRefersToElements"),
                    "exportRelationships", 0)

CallExportSchemas == CanCall /\ EndRun(exportSchemas(BeginRun), "exportSchemas", 0)

Rules ==
  \/ excludeCodeSpec
  \/ excludeElement
  \/ excludeElementsInCategory
  \/ excludeElementClass
  \/ excludeElementAspectClass
  \/ excludeRelationshipClass
  \/ registerHandler

Next ==
  \/ Rules
  \/ CallExportAll
  \/ CallExportModel
  \/ CallExportModelContents
  \/ CallExportElement
  \/ CallExportChildElements
  \/ CallExportRelationships

\* A traverser on a snapshot, before its one top-level call.
Init == TraverserInit /\ sourceDbKind = "snapshot" /\ NoPipeline /\ NoTree /\ NoZones

Spec == Init /\ [][Next]_vars

\* ------------------------------------------------- change-scoped exports
\* The ranges of changesets a call of exportChanges covers: one changeset, or two.
ChangesetRanges ==
  {<<a>> : a \in ChangesetResults} \cup {<<a, b>> : a \in ChangesetResults, b \in ChangesetResults}

\* What the hub answers to one call: the changeset queries or the download fail,
\* or the changesets of the range arrive.  The hub is asked by a briefcase with
\* a changeset id only.
HubAnswers ==
  IF sourceDbKind = "briefcase"
  THEN {[ok |-> FALSE, results |-> <<>>]} \cup {[ok |-> TRUE, results |-> r] : r \in ChangesetRanges}
  ELSE {[ok |-> FALSE, results |-> <<>>]}

CallExportChanges ==
  /\ CanCall
  /\ \E hub \in HubAnswers :
       EndRun(exportChanges(BeginRun, hub.ok, hub.results), "exportChanges", 0)

\* A traverser with the default options and at most one element excluded by id.
ChangesInit ==
  /\ TraverserInit
  /\ NoPipeline /\ NoTree /\ NoZones
  /\ wantTemplateModels /\ visitElements /\ visitRelationships

\* The host calls exportAll on the traverser that exported the changes.
CallExportAllAfterChanges ==
  /\ calls = 1 /\ lastCall.name = "exportChanges"
  /\ EndRun(exportAll(BeginRun), "exportAll", 0)

\* The host calls exportChanges again on the traverser that exported the
\* changes, and this time the hub fails, or the extraction of the first or of the
\* second changeset of the range reports an error.
CallExportChangesDigestFails ==
  /\ calls = 1 /\ lastCall.name = "exportChanges" /\ lastCall.error = ""
  /\ sourceDbChanges.defined
  /\ \E hub \in {[ok |-> FALSE, results |-> <<>>]}
                  \cup {[ok |-> TRUE, results |-> r] :
                         r \in {<<ExtractionError>>,
                                <<ExtractionError, ChangedInstance("element", "update", 2)>>,
                                <<ChangedInstance("element", "update", 2), ExtractionError>>}} :
       EndRun(exportChanges(BeginRun, hub.ok, hub.results), "exportChanges", 0)

NextChanges ==
  \/ NumRules = 0 /\ excludeElement
  \/ CallExportChanges
  \/ CallExportAllAfterChanges
  \/ CallExportChangesDigestFails

SpecChanges == ChangesInit /\ [][NextChanges]_vars

\* ------------------------------------------------------ successive calls
\* The progress intervals the host sets.
ProgressIntervals == {0, 2, 3}

\* A traverser on a snapshot, with any progress interval, on which the host
\* makes two top-level calls.
RunsInit ==
  /\ TraverserFields
  /\ sourceDbKind = "snapshot"
  /\ progressInterval \in ProgressIntervals
  /\ wantSystemSchemas = FALSE
  /\ asyncHandler = FALSE
  /\ callLimit = 2
  /\ NoPipeline /\ NoTree /\ NoZones

NextRuns ==
  \/ CallExportAll
  \/ CallExportSchemas
  \/ CallExportModel
  \/ CallExportModelContents
  \/ CallExportElement
  \/ CallExportChildElements
  \/ CallExportRelationships
  \/ CallExportChanges

SpecRuns == RunsInit /\ [][NextRuns]_vars

\* ------------------------------------------------------- failing accesses
\* A top-level call in which the k-th source access fails, for every access the
\* call makes.
CallExportAllFailing ==
  /\ CanCall
  /\ \E k \in 1..exportAll(BeginRun).accesses :
       EndRun(exportAll([BeginRun EXCEPT !.fault = k]), "exportAll", k)

CallExportSchemasFailing ==
  /\ CanCall
  /\ \E k \in 1..exportSchemas(BeginRun).accesses :
       EndRun(exportSchemas([BeginRun EXCEPT !.fault = k]), "exportSchemas", k)

\* A traverser on a snapshot, with either schema option, on which the host makes
\* one top-level call.
FaultsInit ==
  /\ TraverserFields
  /\ sourceDbKind = "snapshot"
  /\ progressInterval = 1000
  /\ wantSystemSchemas \in BOOLEAN
  /\ asyncHandler \in BOOLEAN
  /\ callLimit = 1
  /\ NoPipeline /\ NoTree /\ NoZones

NextFaults ==
  \/ registerSchemaHandler
  \/ CallExportSchemas
  \/ CallExportAllFailing
  \/ CallExportSchemasFailing

SpecFaults == FaultsInit /\ [][NextFaults]_vars

\* ------------------------------------------------------ the pipeline runs
\* The traverser the pipeline consumes: a snapshot, default options, no rule.
PipeInit ==
  /\ TraverserInit
  /\ sourceDbKind = "snapshot"
  /\ place = [e \in 2..NumElems |-> "top"]
  /\ wantTemplateModels /\ visitElements /\ visitRelationships
  /\ PipelineInit
  /\ NoTree /\ NoZones

NextPipe ==
  \/ (updateSource /\ UNCHANGED <<dbVars, ruleVars, runVars, uiVars>>)
  \/ (deleteSource /\ UNCHANGED <<dbVars, ruleVars, runVars, uiVars>>)
  \/ (processAll /\ UNCHANGED <<dbVars, ruleVars, runVars, uiVars>>)
  \/ (processEntity /\ UNCHANGED <<dbVars, ruleVars, runVars, uiVars>>)
  \/ (endPrimaryPass /\ UNCHANGED <<dbVars, ruleVars, runVars, uiVars>>)
  \/ (processDeferred /\ UNCHANGED <<dbVars, ruleVars, runVars, uiVars>>)
  \/ (endSweeps /\ UNCHANGED <<dbVars, ruleVars, runVars, uiVars>>)
  \/ (detectDeletes /\ UNCHANGED <<dbVars, ruleVars, runVars, uiVars>>)

SpecPipe == PipeInit /\ [][NextPipe]_vars

\* ------------------------------------------- synchronizations and remaps
\* What the host may set up: one source under the default scope, with or
\* without back references and Provenance Records; or two sources of the same
\* shape transformed into one target, each under its own scope or both under
\* the default scope.
SyncInit ==
  /\ TraverserInit
  /\ sourceDbKind = "snapshot"
  /\ place = [e \in 2..NumElems |-> "top"]
  /\ wantTemplateModels /\ visitElements /\ visitRelationships
  /\ srcVersion = [e \in PipeEntities |-> 1]
  /\ edits = 0
  /\ sourceChanged = FALSE
  /\ targetDb = {}
  /\ provenance = {}
  /\ remapTable = [e \in PipeEntities |-> Invalid]
  /\ entityState = [e \in PipeEntities |-> "None"]
  /\ stats = NoStats
  /\ phase = "idle"
  /\ runs = 0
  /\ nextId = 1
  /\ baseline = [clean |-> FALSE, counts |-> [elements |-> 0, relationships |-> 0,
                                             models |-> 0, provenance |-> 0]]
  /\ \/ /\ pipeSources = {"A"} /\ teamScopes = FALSE
        /\ backRefs \in BOOLEAN /\ noProvenance \in BOOLEAN
        /\ pipeExcluded \in {{}} \cup {{e} : e \in {x \in PipeEntities : x % 4 = 3}}
     \/ /\ pipeSources = {"A", "B"} /\ teamScopes \in BOOLEAN
        /\ backRefs = FALSE /\ noProvenance = FALSE /\ pipeExcluded = {}
  /\ runSource = "none"
  /\ scopeSource = [s \in {"scope", "A", "B"} |-> "none"]
  /\ deferralQueue = {}
  /\ pipeError = [kind |-> "", entities |-> {}]
  /\ imports = <<>>
  /\ codeSpecRemap = [c \in CodeSpecIds |-> Invalid]
  /\ remapCalls = <<>>
  /\ NoTree /\ NoZones

\* The host either edits the source between its runs or makes explicit remap
\* calls on the Remap Context.
NextSync ==
  \/ (remapCalls = <<>> /\ updateSource /\ UNCHANGED <<dbVars, ruleVars, runVars, uiVars>>)
  \/ (processAll /\ UNCHANGED <<dbVars, ruleVars, runVars, uiVars>>)
  \/ (processEntity /\ UNCHANGED <<dbVars, ruleVars, runVars, uiVars>>)
  \/ (endPrimaryPass /\ UNCHANGED <<dbVars, ruleVars, runVars, uiVars>>)
  \/ (processDeferred /\ UNCHANGED <<dbVars, ruleVars, runVars, uiVars>>)
  \/ (endSweeps /\ UNCHANGED <<dbVars, ruleVars, runVars, uiVars>>)
  \/ (detectDeletes /\ UNCHANGED <<dbVars, ruleVars, runVars, uiVars>>)
  \/ (edits = 0 /\ remapElement /\ UNCHANGED <<dbVars, ruleVars, runVars, uiVars>>)
  \/ (edits = 0 /\ remapCodeSpec /\ UNCHANGED <<dbVars, ruleVars, runVars, uiVars>>)

SpecSync == SyncInit /\ [][NextSync]_vars

\* ------------------------------------------------- the tree event handler
\* Number of streams the host hands to the handler.
MaxStreams == 3

\* A traverser that is not used: a snapshot, default options, no rule, no call.
TraverserIdle ==
  /\ TraverserInit
  /\ sourceDbKind = "snapshot"
  /\ place = [e \in 2..NumElems |-> "top"]
  /\ wantTemplateModels /\ visitElements /\ visitRelationships
  /\ NoPipeline

\* dispose: this._disposed.next() completes every subscription piped through
\* takeUntil(this._disposed).
dispose ==
  /\ streams' = [i \in DOMAIN streams |->
                   [streams[i] EXCEPT !.disposed = TRUE,
                                      !.active = @ /\ streams[i].kind = "checkbox"]]
  /\ treeCalls' = <<>>
  /\ UNCHANGED <<nineZone, dispatched>>

\* onNodeExpanded: expandNode is called at once, and the observable it returns
\* (the pending expansion) is subscribed to until dispose.
onNodeExpanded ==
  /\ Len(streams) < MaxStreams
  /\ streams' = Append(streams, [kind |-> "expand", active |-> TRUE, firstEmission |-> TRUE,
                                 disposed |-> FALSE, replaced |-> FALSE])
  /\ treeCalls' = <<[op |-> "expandNode", stream |-> Len(streams) + 1, deselects |-> FALSE]>>
  /\ UNCHANGED <<nineZone, dispatched>>

\* onSelectionModified
onSelectionModified ==
  /\ Len(streams) < MaxStreams
  /\ streams' = Append(streams, [kind |-> "modify", active |-> TRUE, firstEmission |-> TRUE,
                                 disposed |-> FALSE, replaced |-> FALSE])
  /\ treeCalls' = <<>>
  /\ UNCHANGED <<nineZone, dispatched>>

\* Mutant: the older selection streams left subscribed.
onSelectionReplaced_NoCancel ==
  /\ Len(streams) < MaxStreams
  /\ streams' = Append([i \in DOMAIN streams |-> [streams[i] EXCEPT !.replaced = TRUE]],
                       [kind |-> "replace", active |-> TRUE, firstEmission |-> TRUE,
                        disposed |-> FALSE, replaced |-> FALSE])
  /\ treeCalls' = <<>>
  /\ UNCHANGED <<nineZone, dispatched>>

\* onSelectionReplaced: this._selectionReplaced.next() completes the
\* subscriptions to the selection streams handed before, then the new stream is
\* subscribed to.
onSelectionReplaced ==
  /\ Len(streams) < MaxStreams
  /\ streams' = Append([i \in DOMAIN streams |->
                          [streams[i] EXCEPT !.replaced = TRUE,
                                             !.active = @ /\ streams[i].kind \notin {"modify", "replace"}]],
                       [kind |-> "replace", active |-> TRUE, firstEmission |-> TRUE,
                        disposed |-> FALSE, replaced |-> FALSE])
  /\ treeCalls' = <<>>
  /\ UNCHANGED <<nineZone, dispatched>>

\* onCheckboxStateChanged: stateChanges.subscribe(...), with no takeUntil.
onCheckboxStateChanged ==
  /\ Len(streams) < MaxStreams
  /\ streams' = Append(streams, [kind |-> "checkbox", active |-> TRUE, firstEmission |-> TRUE,
                                 disposed |-> FALSE, replaced |-> FALSE])
  /\ treeCalls' = <<>>
  /\ UNCHANGED <<nineZone, dispatched>>

\* A stream emits and the handler's subscription to it is open: the next
\* callback the handler subscribed with runs (for a pending expansion, the work
\* of the observable expandNode returned).
next ==
  \E s \in DOMAIN streams : \E deselects \in BOOLEAN :
    /\ streams[s].active
    /\ streams' = [streams EXCEPT ![s].firstEmission = FALSE]
    /\ treeCalls' =
         CASE streams[s].kind = "modify" ->
                <<[op |-> "modifySelection", stream |-> s, deselects |-> deselects]>>
           [] streams[s].kind = "replace" ->
                (IF streams[s].firstEmission
                 THEN <<[op |-> "replaceSelection", stream |-> s, deselects |-> FALSE]>>
                 ELSE <<>>)
                \o <<[op |-> "modifySelection", stream |-> s, deselects |-> FALSE]>>
           [] streams[s].kind = "checkbox" ->
                <<[op |-> "setCheckboxStates", stream |-> s, deselects |-> FALSE]>>
           [] OTHER ->
                <<[op |-> "expandNode", stream |-> s, deselects |-> FALSE]>>
    /\ UNCHANGED <<nineZone, dispatched>>

TreeInit == TraverserIdle /\ NoTree /\ NoZones

NextTree ==
  \/ (dispose /\ UNCHANGED <<dbVars, ruleVars, runVars, pipeVars>>)
  \/ (onNodeExpanded /\ UNCHANGED <<dbVars, ruleVars, runVars, pipeVars>>)
  \/ (onSelectionModified /\ UNCHANGED <<dbVars, ruleVars, runVars, pipeVars>>)
  \/ (onSelectionReplaced /\ UNCHANGED <<dbVars, ruleVars, runVars, pipeVars>>)
  \/ (onCheckboxStateChanged /\ UNCHANGED <<dbVars, ruleVars, runVars, pipeVars>>)
  \/ (next /\ UNCHANGED <<dbVars, ruleVars, runVars, pipeVars>>)

SpecTree == TreeInit /\ [][NextTree]_vars

\* ------------------------------------------------------ the widget layout
\* The NineZoneState, without its geometry (bounds, sizes, collapsed and
\* minimized flags), which no decision about tabs and widgets reads:
\*   draggedTab      [tabId, home], tabId "" when undefined
\*   floatingById    floating widget id -> [home, hidden]
\*   floatingAllIds  the ids of the floating widgets, back to front
\*   popoutById      popout widget id -> [home]
\*   popoutAllIds    the ids of the popout widgets
\*   panels          side -> the widget ids of the panel's sections, in order
\*   toolSettings    "docked" or "widget"
\*   widgets         widget id -> [activeTabId, tabs]
\*   created         how many unique ids the layout has handed out
\* A home is [side, widgetId, widgetIndex], widgetId "" when undefined.

\* Number of actions dispatched to the reducer.
MaxDispatch == 4

PanelSides == {"left", "right"}
toolSettingsTabId == "nz-tool-settings-tab"
getMaxWidgetCount == 2

\* getUniqueId: the k-th new id.
UniqueIds == <<"n1", "n2", "n3", "n4", "n5", "n6">>

DefaultHome == [side |-> "left", widgetId |-> "", widgetIndex |-> 0]

\* createNineZoneState
createNineZoneState ==
  [draggedTab |-> [tabId |-> "", home |-> DefaultHome],
   floatingById |-> <<>>, floatingAllIds |-> <<>>,
   popoutById |-> <<>>, popoutAllIds |-> <<>>,
   panels |-> [side \in PanelSides |-> <<>>],
   toolSettings |-> "docked",
   widgets |-> <<>>,
   created |-> 0]

\* getWidgetPanelSectionId
getWidgetPanelSectionId(side, panelSectionIndex) ==
  IF side = "left"
  THEN (IF panelSectionIndex = 0 THEN "leftStart" ELSE "leftEnd")
  ELSE (IF panelSectionIndex = 0 THEN "rightStart" ELSE "rightEnd")

\* array.indexOf(x), counted from 0; -1 when x is not in the array.
indexOf(array, x) ==
  IF \E i \in DOMAIN array : array[i] = x
  THEN (CHOOSE i \in DOMAIN array : array[i] = x /\ \A j \in 1..(i - 1) : array[j] # x) - 1
  ELSE -1

\* array.splice(start, 1): a negative start counts from the end of the array.
spliceOut(array, start) ==
  LET at == IF start < 0 THEN Len(array) + start + 1 ELSE start + 1
  IN [i \in 1..(Len(array) - (IF at \in DOMAIN array THEN 1 ELSE 0)) |->
        IF i < at THEN array[i] ELSE array[i + 1]]

\* array.splice(start, 0, ...items)
spliceIn(array, start, items) ==
  LET at == IF start > Len(array) THEN Len(array) ELSE start
  IN SubSeq(array, 1, at) \o items \o SubSeq(array, at + 1, Len(array))

\* findWidget: where the widget is, "" when nowhere.
findWidget(state, id) ==
  IF id \in DOMAIN state.floatingById THEN [type |-> "floating", side |-> ""]
  ELSE IF id \in DOMAIN state.popoutById THEN [type |-> "popout", side |-> ""]
  ELSE IF \E side \in PanelSides : indexOf(state.panels[side], id) >= 0
  THEN [type |-> "panel",
        side |-> CHOOSE side \in PanelSides : indexOf(state.panels[side], id) >= 0]
  ELSE [type |-> "", side |-> ""]

\* updateHomeOfToolSettingsWidget
updateHomeOfToolSettingsWidget(state, id, home) ==
  IF state.widgets[id].tabs = <<toolSettingsTabId>> /\ id \in DOMAIN state.floatingById
  THEN [state EXCEPT !.floatingById[id].home = home]
  ELSE state

\* removeWidget, with removeFloatingWidget and removePopoutWidget
removeWidget(state, id) ==
  [state EXCEPT
     !.widgets = [w \in DOMAIN @ \ {id} |-> @[w]],
     !.floatingById = [f \in DOMAIN @ |-> IF f = id THEN [@[f] EXCEPT !.hidden = TRUE] ELSE @[f]],
     !.floatingAllIds = IF indexOf(@, id) >= 0 THEN spliceOut(@, indexOf(@, id)) ELSE @,
     !.popoutById = [p \in DOMAIN @ \ {id} |-> @[p]],
     !.popoutAllIds = IF indexOf(@, id) >= 0 THEN spliceOut(@, indexOf(@, id)) ELSE @]

\* Mutant: the active tab left as it was when the tab is removed.
removeWidgetTabInternal_KeepActive(state, widgetId, floatingWidgetId, popoutWidgetId, side, tabId) ==
  LET widget == state.widgets[widgetId]
      tabs == spliceOut(widget.tabs, indexOf(widget.tabs, tabId))
  IN IF tabs # <<>>
     THEN [state EXCEPT !.widgets[widgetId] = [activeTabId |-> widget.activeTabId, tabs |-> tabs]]
     ELSE removeWidget(state, widgetId)

\* removeWidgetTabInternal: "" for an undefined floatingWidgetId, popoutWidgetId
\* or side.
removeWidgetTabInternal(state, widgetId, floatingWidgetId, popoutWidgetId, side, tabId) ==
  LET widget == state.widgets[widgetId]
      tabs == spliceOut(widget.tabs, indexOf(widget.tabs, tabId))
      activeTabId == IF tabId = widget.activeTabId
                     THEN (IF tabs # <<>> THEN tabs[1] ELSE "")
                     ELSE widget.activeTabId
  IN IF tabs # <<>>
     THEN [state EXCEPT !.widgets[widgetId] = [activeTabId |-> activeTabId, tabs |-> tabs]]
     ELSE [state EXCEPT
             !.floatingById =
               IF floatingWidgetId # "" THEN [@ EXCEPT ![floatingWidgetId].hidden = TRUE] ELSE @,
             !.floatingAllIds =
               IF floatingWidgetId # "" THEN spliceOut(@, indexOf(@, floatingWidgetId)) ELSE @,
             !.popoutById =
               IF popoutWidgetId # "" THEN [p \in DOMAIN @ \ {popoutWidgetId} |-> @[p]] ELSE @,
             !.popoutAllIds =
               IF popoutWidgetId # "" THEN spliceOut(@, indexOf(@, popoutWidgetId)) ELSE @,
             !.panels =
               IF side # "" THEN [@ EXCEPT ![side] = spliceOut(@, indexOf(@, widgetId))] ELSE @,
             !.widgets = [w \in DOMAIN @ \ {widgetId} |-> @[w]]]

\* removeWidgetTab, for the widget findTab found the tab in ("" when in none).
removeWidgetTab(state, tabId, widgetId) ==
  LET location == findWidget(state, widgetId)
  IN IF widgetId = "" \/ location.type = "" THEN state
     ELSE removeWidgetTabInternal(state, widgetId,
            IF location.type = "floating" THEN widgetId ELSE "",
            IF location.type = "popout" THEN widgetId ELSE "",
            location.side, tabId)

\* The widgets a dragged widget or tab can be dropped on: every widget but the
\* dragged one and the popout widgets.
DropWidgets(state, dragged) ==
  {w \in DOMAIN state.widgets : w # dragged /\ w \notin DOMAIN state.popoutById}

\* The next unique id, for an action that creates a widget.
NewId == UniqueIds[nineZone.created + 1]

\* PANEL_WIDGET_DRAG_START
PANEL_WIDGET_DRAG_START ==
  /\ \E side \in PanelSides : \E i \in DOMAIN nineZone.panels[side] :
       LET id == nineZone.panels[side][i]
           widgetIndex == indexOf(nineZone.panels[side], id)
       IN nineZone' =
            [nineZone EXCEPT
               !.floatingAllIds = Append(@, NewId),
               !.floatingById = (NewId :> [home |-> [side |-> side, widgetId |-> "",
                                                    widgetIndex |-> widgetIndex],
                                          hidden |-> FALSE]) @@ @,
               !.widgets = (NewId :> @[id]) @@ [w \in DOMAIN @ \ {id} |-> @[w]],
               !.panels[side] = spliceOut(@, widgetIndex),
               !.created = @ + 1]
  /\ dispatched < MaxDispatch /\ dispatched' = dispatched + 1
  /\ UNCHANGED <<streams, treeCalls>>

\* WIDGET_DRAG_END: the floating widget is dropped on the window, on a tab
\* position of another widget, on a new section of a panel with room for one,
\* on another widget, or on an empty panel.
WIDGET_DRAG_END ==
  /\ \E k \in DOMAIN nineZone.floatingAllIds :
       LET floatingWidgetId == nineZone.floatingAllIds[k]
           floatingWidget == nineZone.floatingById[floatingWidgetId]
           draggedWidget == nineZone.widgets[floatingWidgetId]
           idIndex == indexOf(nineZone.floatingAllIds, floatingWidgetId)
           done(state) ==
             [state EXCEPT
                !.widgets = [w \in DOMAIN @ \ {floatingWidgetId} |-> @[w]],
                !.floatingById = [f \in DOMAIN @ \ {floatingWidgetId} |-> @[f]],
                !.floatingAllIds = spliceOut(@, indexOf(@, floatingWidgetId))]
       IN \/ nineZone' = [nineZone EXCEPT
                            !.floatingAllIds = Append(spliceOut(@, idIndex), floatingWidgetId)]
          \/ \E widgetId \in DropWidgets(nineZone, floatingWidgetId) :
               \E tabIndex \in 0..Len(nineZone.widgets[widgetId].tabs) :
                 nineZone' =
                   done([updateHomeOfToolSettingsWidget(nineZone, widgetId, floatingWidget.home)
                           EXCEPT !.widgets[widgetId].tabs =
                                    spliceIn(@, tabIndex, draggedWidget.tabs)])
          \/ \E side \in PanelSides :
               \E sectionIndex \in 0..Len(nineZone.panels[side]) :
                 /\ Len(nineZone.panels[side]) < getMaxWidgetCount
                 /\ nineZone' =
                      done([nineZone EXCEPT
                              !.panels[side] = spliceIn(@, sectionIndex, <<NewId>>),
                              !.widgets = (NewId :> draggedWidget) @@ @,
                              !.created = @ + 1])
          \/ \E widgetId \in DropWidgets(nineZone, floatingWidgetId) :
               nineZone' =
                 done([updateHomeOfToolSettingsWidget(nineZone, widgetId, floatingWidget.home)
                         EXCEPT !.widgets[widgetId].tabs = @ \o draggedWidget.tabs])
          \/ \E side \in PanelSides :
               /\ nineZone.panels[side] = <<>>
               /\ nineZone' =
                    done([nineZone EXCEPT
                            !.panels[side] = <<getWidgetPanelSectionId(side, 0)>>,
                            !.widgets = (getWidgetPanelSectionId(side, 0) :> draggedWidget) @@ @])
  /\ dispatched < MaxDispatch /\ dispatched' = dispatched + 1
  /\ UNCHANGED <<streams, treeCalls>>

\* The widget a send-back puts the tabs into, and the panel after it.
\* insertSection: "Add a new widget" of both send-back cases.
insertSection(state, side, destinationWidgetId, tabs) ==
  LET insertIndex == IF state.panels[side] = <<>> THEN 0
                     ELSE IF destinationWidgetId \in {"leftEnd", "rightEnd"} THEN 1
                     ELSE 0
  IN [state EXCEPT
        !.widgets = (destinationWidgetId :> [activeTabId |-> tabs[1], tabs |-> tabs]) @@ @,
        !.panels[side] = spliceIn(@, insertIndex, <<destinationWidgetId>>)]

\* FLOATING_WIDGET_SEND_BACK
FLOATING_WIDGET_SEND_BACK ==
  /\ \E k \in DOMAIN nineZone.floatingAllIds :
       LET id == nineZone.floatingAllIds[k]
           widget == nineZone.widgets[id]
           home == nineZone.floatingById[id].home
           panel == nineZone.panels[home.side]
           destinationWidgetId == IF home.widgetId # "" THEN home.widgetId
                                  ELSE getWidgetPanelSectionId(home.side, home.widgetIndex)
           destination ==
             IF destinationWidgetId \in DOMAIN nineZone.widgets THEN destinationWidgetId
             ELSE IF Len(panel) = getMaxWidgetCount /\ (home.widgetIndex + 1) \in DOMAIN panel
             THEN panel[home.widgetIndex + 1]
             ELSE ""
       IN nineZone' =
            IF destination # ""
            THEN removeWidget([nineZone EXCEPT !.widgets[destination].tabs = @ \o widget.tabs], id)
            ELSE removeWidget(insertSection(nineZone, home.side, destinationWidgetId, widget.tabs), id)
  /\ dispatched < MaxDispatch /\ dispatched' = dispatched + 1
  /\ UNCHANGED <<streams, treeCalls>>

\* POPOUT_WIDGET_SEND_BACK
POPOUT_WIDGET_SEND_BACK ==
  /\ \E k \in DOMAIN nineZone.popoutAllIds :
       LET id == nineZone.popoutAllIds[k]
           widget == nineZone.widgets[id]
           home == nineZone.popoutById[id].home
           widgetPanelSectionId == IF home.widgetId # "" THEN home.widgetId
                                   ELSE getWidgetPanelSectionId(home.side, home.widgetIndex)
       IN nineZone' =
            IF widgetPanelSectionId \in DOMAIN nineZone.widgets
            THEN removeWidget([nineZone EXCEPT !.widgets[widgetPanelSectionId].tabs =
                                                  @ \o widget.tabs], id)
            ELSE removeWidget(insertSection(nineZone, home.side, widgetPanelSectionId,
                                            widget.tabs), id)
  /\ dispatched < MaxDispatch /\ dispatched' = dispatched + 1
  /\ UNCHANGED <<streams, treeCalls>>

\* WIDGET_TAB_CLICK, with setWidgetActiveTabId
WIDGET_TAB_CLICK ==
  /\ \E widgetId \in DOMAIN nineZone.widgets :
       \E i \in DOMAIN nineZone.widgets[widgetId].tabs :
         nineZone' = [nineZone EXCEPT !.widgets[widgetId].activeTabId =
                                        nineZone.widgets[widgetId].tabs[i]]
  /\ dispatched < MaxDispatch /\ dispatched' = dispatched + 1
  /\ UNCHANGED <<streams, treeCalls>>

\* WIDGET_TAB_DRAG_START: a tab of a floating widget or of a panel section is
\* picked up while no other tab is being dragged.
WIDGET_TAB_DRAG_START ==
  /\ nineZone.draggedTab.tabId = ""
  /\ \E widgetId \in DOMAIN nineZone.widgets :
       \E i \in DOMAIN nineZone.widgets[widgetId].tabs :
         LET id == nineZone.widgets[widgetId].tabs[i]
             location == findWidget(nineZone, widgetId)
             floatingWidgetId == IF location.type = "floating" THEN widgetId ELSE ""
             side == location.side
             home == IF floatingWidgetId # ""
                     THEN nineZone.floatingById[floatingWidgetId].home
                     ELSE [side |-> side, widgetId |-> widgetId,
                           widgetIndex |-> indexOf(nineZone.panels[side], widgetId)]
         IN /\ location.type \in {"floating", "panel"}
            /\ nineZone' =
                 removeWidgetTabInternal(
                   [nineZone EXCEPT !.draggedTab = [tabId |-> id, home |-> home]],
                   widgetId, floatingWidgetId, "", side, id)
  /\ dispatched < MaxDispatch /\ dispatched' = dispatched + 1
  /\ UNCHANGED <<streams, treeCalls>>

\* WIDGET_TAB_DRAG_END: the dragged tab is dropped on a tab position of a
\* widget, on an empty panel, on a new section of a panel with room for one,
\* on a widget, or on the window (a new floating widget).
WIDGET_TAB_DRAG_END ==
  /\ nineZone.draggedTab.tabId # ""
  /\ LET id == nineZone.draggedTab.tabId
         home == nineZone.draggedTab.home
         newWidget == [activeTabId |-> id, tabs |-> <<id>>]
         done(state) == [state EXCEPT !.draggedTab = createNineZoneState.draggedTab]
     IN \/ \E widgetId \in DropWidgets(nineZone, "") :
             \E tabIndex \in 0..Len(nineZone.widgets[widgetId].tabs) :
               nineZone' =
                 done([updateHomeOfToolSettingsWidget(nineZone, widgetId, home)
                         EXCEPT !.widgets[widgetId].tabs = spliceIn(@, tabIndex, <<id>>)])
        \/ \E side \in PanelSides :
             /\ nineZone.panels[side] = <<>>
             /\ nineZone' =
                  done([nineZone EXCEPT
                          !.panels[side] = Append(@, NewId),
                          !.widgets = (NewId :> newWidget) @@ @,
                          !.created = @ + 1])
        \/ \E side \in PanelSides :
             \E sectionIndex \in 0..Len(nineZone.panels[side]) :
               /\ Len(nineZone.panels[side]) < getMaxWidgetCount
               /\ nineZone' =
                    done([nineZone EXCEPT
                            !.panels[side] = spliceIn(@, sectionIndex, <<NewId>>),
                            !.widgets = (NewId :> newWidget) @@ @,
                            !.created = @ + 1])
        \/ \E widgetId \in DropWidgets(nineZone, "") :
             nineZone' =
               done([updateHomeOfToolSettingsWidget(nineZone, widgetId, home)
                       EXCEPT !.widgets[widgetId].tabs = Append(@, id)])
        \/ nineZone' =
                done([nineZone EXCEPT
                        !.floatingById = (NewId :> [home |-> home, hidden |-> FALSE]) @@ @,
                        !.floatingAllIds = Append(@, NewId),
                        !.widgets = (NewId :> newWidget) @@ @,
                        !.created = @ + 1])
  /\ dispatched < MaxDispatch /\ dispatched' = dispatched + 1
  /\ UNCHANGED <<streams, treeCalls>>

\* TOOL_SETTINGS_DRAG_START
TOOL_SETTINGS_DRAG_START ==
  /\ nineZone' =
       IF nineZone.toolSettings = "docked"
       THEN [nineZone EXCEPT
               !.toolSettings = "widget",
               !.widgets = (NewId :> [activeTabId |-> toolSettingsTabId,
                                      tabs |-> <<toolSettingsTabId>>]) @@ @,
               !.floatingById = (NewId :> [home |-> DefaultHome, hidden |-> FALSE]) @@ @,
               !.floatingAllIds = Append(@, NewId),
               !.created = @ + 1]
       ELSE nineZone
  /\ dispatched < MaxDispatch /\ dispatched' = dispatched + 1
  /\ UNCHANGED <<streams, treeCalls>>

\* TOOL_SETTINGS_DOCK: findTab takes the first widget holding the tab in the
\* order the widgets were added, which the model leaves open.
TOOL_SETTINGS_DOCK ==
  /\ LET holders == {w \in DOMAIN nineZone.widgets :
                       indexOf(nineZone.widgets[w].tabs, toolSettingsTabId) >= 0}
     IN \E widgetId \in (IF holders = {} THEN {""} ELSE holders) :
          nineZone' = [removeWidgetTab(nineZone, toolSettingsTabId, widgetId)
                         EXCEPT !.toolSettings = "docked"]
  /\ dispatched < MaxDispatch /\ dispatched' = dispatched + 1
  /\ UNCHANGED <<streams, treeCalls>>

\* The layouts the builders make: addPanelWidget puts t1 into section w1 of
\* the left panel and t2 into w1 too, or into a section w2 of the left or of
\* the right panel; addFloatingWidget or addPopoutWidget makes a widget of t3,
\* with the default home or one given in its arguments.
Layouts ==
  LET atIndex1 == [side |-> "left", widgetId |-> "", widgetIndex |-> 1]
      atW1 == [side |-> "left", widgetId |-> "w1", widgetIndex |-> 0]
      one(tabs) == [activeTabId |-> tabs[1], tabs |-> tabs]
      addPanelWidgets(where) ==
        [createNineZoneState EXCEPT
           !.widgets = IF where = "w1" THEN ("w1" :> one(<<"t1", "t2">>))
                       ELSE ("w1" :> one(<<"t1">>)) @@ ("w2" :> one(<<"t2">>)),
           !.panels = [side \in PanelSides |->
                         IF side = "left"
                         THEN (IF where = "left" THEN <<"w1", "w2">> ELSE <<"w1">>)
                         ELSE (IF where = "right" THEN <<"w2">> ELSE <<>>)]]
      addFloatingWidget(state, home) ==
        [state EXCEPT !.floatingById = ("fw" :> [home |-> home, hidden |-> FALSE]) @@ @,
                      !.floatingAllIds = Append(@, "fw"),
                      !.widgets = ("fw" :> one(<<"t3">>)) @@ @]
      addPopoutWidget(state, home) ==
        [state EXCEPT !.popoutById = ("pw" :> [home |-> home]) @@ @,
                      !.popoutAllIds = Append(@, "pw"),
                      !.widgets = ("pw" :> one(<<"t3">>)) @@ @]
  IN {createNineZoneState,
      addFloatingWidget(addPanelWidgets("left"), DefaultHome),
      addFloatingWidget(addPanelWidgets("w1"), atW1),
      addPopoutWidget(addPanelWidgets("left"), DefaultHome),
      addPopoutWidget(addPanelWidgets("right"), atIndex1)}

ZonesInit ==
  /\ TraverserIdle
  /\ streams = <<>> /\ treeCalls = <<>>
  /\ nineZone \in Layouts
  /\ dispatched = 0

NextZones ==
  \/ (PANEL_WIDGET_DRAG_START /\ UNCHANGED <<dbVars, ruleVars, runVars, pipeVars>>)
  \/ (WIDGET_DRAG_END /\ UNCHANGED <<dbVars, ruleVars, runVars, pipeVars>>)
  \/ (FLOATING_WIDGET_SEND_BACK /\ UNCHANGED <<dbVars, ruleVars, runVars, pipeVars>>)
  \/ (POPOUT_WIDGET_SEND_BACK /\ UNCHANGED <<dbVars, ruleVars, runVars, pipeVars>>)
  \/ (WIDGET_TAB_CLICK /\ UNCHANGED <<dbVars, ruleVars, runVars, pipeVars>>)
  \/ (WIDGET_TAB_DRAG_START /\ UNCHANGED <<dbVars, ruleVars, runVars, pipeVars>>)
  \/ (WIDGET_TAB_DRAG_END /\ UNCHANGED <<dbVars, ruleVars, runVars, pipeVars>>)
  \/ (TOOL_SETTINGS_DRAG_START /\ UNCHANGED <<dbVars, ruleVars, runVars, pipeVars>>)
  \/ (TOOL_SETTINGS_DOCK /\ UNCHANGED <<dbVars, ruleVars, runVars, pipeVars>>)

SpecZones == ZonesInit /\ [][NextZones]_vars

\* ================================================================ claims
\* The positions of the log at which element e got its export callback.
ElementExports(e) == {i \in DOMAIN log : log[i].cb = "onExportElement" /\ log[i].id = e}

\* Whether built-in rule k (1 excluded id, 2 excluded category, 3 template
\* opt-out, 4 excluded class) matches element e.
MatchesRule(e, k) ==
  CASE k = 1 -> e \in excludedElementIds
    [] k = 2 -> /\ InstanceOf(ElementClass(e), "GeometricElement")
                /\ ElementCategory(e) \in excludedElementCategoryIds
    [] k = 3 -> ~wantTemplateModels /\ InstanceOf(ElementClass(e), "RecipeDefinitionElement")
    [] OTHER -> \E c \in excludedElementClasses : InstanceOf(ElementClass(e), c)

\* e is excluded: by a built-in rule or by the handler's predicate.
IsExcluded(e) == (\E k \in 1..4 : MatchesRule(e, k)) \/ <<"element", e>> \in handlerRejects

RECURSIVE NotExcludedUpward(_)
\* Neither e nor any ancestor of e (parent element, or modeled element of the
\* containing model) is excluded.
NotExcludedUpward(e) ==
  /\ ~IsExcluded(e)
  /\ \/ e = rootSubjectId
     \/ NotExcludedUpward(IF ParentOf(e) # 0 THEN ParentOf(e) ELSE ModelOf(e))

Stage(ev) ==
  CASE ev.kind = "codespec" -> 1
    [] ev.kind = "font" -> 2
    [] ev.kind \in {"model", "element", "unique-aspect", "multi-aspect"} -> 3
    [] ev.kind = "relationship" -> 4
    [] OTHER -> 0

\* C3: in exportAll every code-spec callback precedes every font callback, every
\* font callback every model, element and aspect callback, and these precede
\* every relationship callback.
C3_TopLevelOrder ==
  lastCall.name = "exportAll" =>
    \A i \in DOMAIN log : \A j \in DOMAIN log :
      (i < j /\ Stage(log[i]) # 0 /\ Stage(log[j]) # 0) => Stage(log[i]) <= Stage(log[j])

\* An exportAll that issued callbacks of every kind.
C3_Witness ==
  /\ lastCall.name = "exportAll"
  /\ \A k \in {"codespec", "font", "model", "element", "unique-aspect", "multi-aspect",
               "relationship"} : \E i \in DOMAIN log : log[i].kind = k

\* The event at position j is an aspect callback of element e.
AspectEventOf(e, j) ==
  \/ log[j].kind = "unique-aspect" /\ log[j].id = 100 + e
  \/ log[j].kind = "multi-aspect" /\ log[j].id = e

RECURSIVE IsDescendant(_, _)
IsDescendant(d, e) ==
  /\ ParentOf(d) # 0
  /\ (ParentOf(d) = e \/ IsDescendant(ParentOf(d), e))

\* C4: the export callback of an element precedes the callbacks of its aspects,
\* and these precede the export callback of every child and deeper descendant.
C4_PreOrder ==
  \A i \in DOMAIN log :
    log[i].cb = "onExportElement" =>
      /\ \A j \in DOMAIN log : AspectEventOf(log[i].id, j) => i < j
      /\ \A k \in DOMAIN log :
           (log[k].cb = "onExportElement" /\ IsDescendant(log[k].id, log[i].id)) =>
             /\ i < k
             /\ \A j \in DOMAIN log : AspectEventOf(log[i].id, j) => j < k

\* An exported element with a unique aspect, a batch of multi aspects and an
\* exported grandchild.
C4_Witness ==
  \E i \in DOMAIN log : \E j \in DOMAIN log : \E m \in DOMAIN log : \E k \in DOMAIN log :
    /\ log[i].cb = "onExportElement"
    /\ log[j].kind = "unique-aspect" /\ AspectEventOf(log[i].id, j)
    /\ log[m].kind = "multi-aspect" /\ AspectEventOf(log[i].id, m)
    /\ log[k].cb = "onExportElement" /\ IsDescendant(log[k].id, log[i].id)

RECURSIVE InModelSubtree(_, _)
\* Model m is model top or below it in the model hierarchy.
InModelSubtree(m, top) ==
  \/ m = top
  \/ m # repositoryModelId /\ m # 0 /\ InModelSubtree(ParentModelOf(m), top)

\* The model an event is about: the model itself, or the model of the element.
EventModel(ev) ==
  CASE ev.kind = "model" -> ev.id
    [] ev.kind = "element" -> ModelOf(ev.id)
    [] ev.kind = "multi-aspect" -> ModelOf(ev.id)
    [] ev.kind = "unique-aspect" -> ModelOf(ev.id - 100)
    [] OTHER -> 0

\* Sub-model a is exported before its sibling b.
ExportedBefore(a, b) ==
  \/ IsDefinitionModel(a) /\ ~IsDefinitionModel(b)
  \/ IsDefinitionModel(a) = IsDefinitionModel(b) /\ a < b

\* C5: of two sub-models of one parent, every callback for the subtree of a
\* definition model precedes every callback for the subtree of another kind of
\* model, and within a kind the subtree of the smaller id comes first.
C5_SubModelOrder ==
  \A a \in ModelIds \ {repositoryModelId} : \A b \in ModelIds \ {repositoryModelId} :
    (a # b /\ ParentModelOf(a) = ParentModelOf(b) /\ ExportedBefore(a, b)) =>
      \A i \in DOMAIN log : \A j \in DOMAIN log :
        (InModelSubtree(EventModel(log[i]), a) /\ InModelSubtree(EventModel(log[j]), b))
          => i < j

\* A run that exported a definition sub-model, contents included, before a
\* sibling of another kind that has the smaller id.
C5_Witness ==
  \E a \in ModelIds : \E b \in ModelIds :
    /\ ParentModelOf(a) = ParentModelOf(b)
    /\ IsDefinitionModel(a) /\ ~IsDefinitionModel(b) /\ b < a
    /\ \E i \in DOMAIN log : \E j \in DOMAIN log :
         /\ EventModel(log[i]) = a /\ log[i].kind = "element"
         /\ EventModel(log[j]) = b
         /\ i < j

\* A run that exported two sub-models of one kind and one parent in ascending
\* order of their ids.
C5_WitnessAscending ==
  \E b \in ModelIds : \E c \in ModelIds :
    /\ ParentModelOf(b) = ParentModelOf(c)
    /\ IsDefinitionModel(b) = IsDefinitionModel(c) /\ b < c
    /\ \E j \in DOMAIN log : \E k \in DOMAIN log :
         EventModel(log[j]) = b /\ EventModel(log[k]) = c /\ j < k

C6_WitnessHandler ==
  \E e \in ElemIds : <<"element", e>> \in asked /\ <<"element", e>> \in handlerRejects

\* C7: no instance of a polymorphically excluded class (element or relationship)
\* is ever loaded from the source.
C7_NoLoadOfExcluded ==
  \A x \in loaded :
    /\ x[1] = "element" =>
         ~\E c \in excludedElementClasses : InstanceOf(ElementClass(x[2]), c)
    /\ x[1] = "relationship" =>
         ~\E c \in excludedRelationshipClasses : InstanceOf(RelationshipClass(x[2]), c)

\* ------------------------------------------------ change-scoped claims
\* The last call was an exportChanges that computed a Change Record.
ChangeScoped == lastCall.name = "exportChanges" /\ lastCall.error = "" /\ sourceDbChanges.defined

\* The Change Record of the kind a callback is about.
ChangeOpsOf(kind) ==
  CASE kind = "codespec" -> sourceDbChanges.ids.codeSpec
    [] kind = "font" -> sourceDbChanges.ids.font
    [] kind = "model" -> sourceDbChanges.ids.model
    [] kind = "element" -> sourceDbChanges.ids.element
    [] kind \in {"unique-aspect", "multi-aspect"} -> sourceDbChanges.ids.aspect
    [] OTHER -> sourceDbChanges.ids.relationship

InsertedOrUpdated(kind, id) ==
  id \in ChangeOpsOf(kind).insertIds \cup ChangeOpsOf(kind).updateIds

ExportCallbacks ==
  {"onExportCodeSpec", "onExportFont", "onExportModel", "onExportElement",
   "onExportElementUniqueAspect", "onExportElementMultiAspects", "onExportRelationship"}

\* The multi-aspects of e that no aspect exclusion rule and no handler rejects.
ExportableMultiAspects(e) ==
  SelectSeq(MultiAspectsOf(e),
    LAMBDA a : /\ AspectClass(a) \notin excludedElementAspectClassFullNames
               /\ ~\E c \in excludedElementAspectClasses : InstanceOf(AspectClass(a), c)
               /\ <<"aspect", a>> \notin handlerRejects)

ElementChanged(e) == InsertedOrUpdated("element", e)

RECURSIVE ModelWalked(_)
\* exportModel(m) got as far as its contents and sub-models: the repository
\* model always, a sub-model when its parent model did and its modeled element
\* is not excluded.
ModelWalked(m) ==
  \/ m = repositoryModelId
  \/ /\ ModelWalked(ParentModelOf(m))
     /\ ~(IsTemplateModel(m) /\ ~wantTemplateModels)
     /\ ~IsExcluded(m)

\* exportModelContents(m) ran its query: m is walked and in the model Change Record.
ContentsWalked(m) == visitElements /\ ModelWalked(m) /\ InsertedOrUpdated("model", m)

RECURSIVE UnchangedAbove(_)
\* No element on the parent chain above e is in the element Change Record.
UnchangedAbove(e) ==
  \/ ParentOf(e) = 0
  \/ ~ElementChanged(ParentOf(e)) /\ UnchangedAbove(ParentOf(e))

\* C9: in a change-scoped export, a changed and non-excluded element below a
\* chain of unchanged parents, in a model whose contents are walked, gets its
\* export callback (exactly once).
C9_SkipButRecurse ==
  ChangeScoped =>
    \A e \in ElemIds :
      (/\ ParentOf(e) # 0 /\ UnchangedAbove(e)
       /\ ElementChanged(e) /\ ~IsExcluded(e)
       /\ ContentsWalked(ModelOf(e)))
      => Cardinality(ElementExports(e)) = 1

\* A changed element exported below an unchanged parent and an unchanged
\* grandparent, neither of which got a callback.
C9_Witness ==
  /\ ChangeScoped
  /\ \E e \in ElemIds :
       /\ ParentOf(e) # 0 /\ ParentOf(ParentOf(e)) # 0 /\ UnchangedAbove(e)
       /\ ElementExports(e) # {}
       /\ ElementExports(ParentOf(e)) = {}
       /\ ElementExports(ParentOf(ParentOf(e))) = {}

RECURSIVE Reached(_)
\* exportElement(e) is called by the walk of exportChanges: from the contents
\* query of its model, or from its parent, which recurses unless it is changed
\* and excluded.
Reached(e) ==
  IF ParentOf(e) = 0 THEN ContentsWalked(ModelOf(e))
  ELSE /\ Reached(ParentOf(e))
       /\ ~(ElementChanged(ParentOf(e)) /\ IsExcluded(ParentOf(e)))

\* C10 as stated: with X in the update set (and exported) and X's unchanged, not
\* excluded child Y, the export still issues the callback of Y.
C10_ChildOfUpdatedVisited ==
  ChangeScoped =>
    \A y \in ElemIds :
      (/\ ParentOf(y) # 0
       /\ ParentOf(y) \in sourceDbChanges.ids.element.updateIds
       /\ ElementExports(ParentOf(y)) # {}
       /\ ~ElementChanged(y) /\ ~IsExcluded(y))
      => ElementExports(y) # {}

\* C10 amended: in a change-scoped export, an element gets its export callback
\* exactly when the walk reaches it, it is itself in the element insert or
\* update set, and it is not excluded; an unchanged child of an exported,
\* updated parent gets none.
C10_SkippedIffUnchanged ==
  ChangeScoped =>
    \A e \in ElemIds :
      /\ Cardinality(ElementExports(e)) <= 1
      /\ ElementExports(e) # {} <=> (Reached(e) /\ ElementChanged(e) /\ ~IsExcluded(e))

\* X updated and exported, its unchanged and non-excluded child Y reached and
\* given no callback.
C10_Witness ==
  /\ ChangeScoped
  /\ \E y \in ElemIds :
       /\ ParentOf(y) # 0
       /\ ParentOf(y) \in sourceDbChanges.ids.element.updateIds
       /\ ElementExports(ParentOf(y)) # {}
       /\ Reached(y) /\ ~ElementChanged(y) /\ ~IsExcluded(y)
       /\ ElementExports(y) = {}

\* ----------------------------------------------------------- idempotence
\* C1: a processAll that began after a completed processAll, with no edit of
\* the source in between, makes no insert, no update and no delete (and writes no
\* Provenance Record), does not fail, and leaves the target's element,
\* provenance and relationship counts as they were.
C1_SecondRunNoOp ==
  (baseline.clean /\ phase # "idle") =>
    /\ stats = NoStats
    /\ TargetCounts = baseline.counts
    /\ phase # "failed"

\* A second run over an unchanged source has ended, on a non-empty target with an
\* element and a relationship, every entity Skipped or Excluded.
C1_Witness ==
  /\ baseline.clean /\ phase = "done" /\ runs >= 2
  /\ TargetCount("element") > 0 /\ TargetCount("relationship") > 0
  /\ \E e \in PipeEntities : entityState[e] = "Skipped"
  /\ \A e \in PipeEntities : entityState[e] \in {"Skipped", "Excluded", "None"}

\* ------------------------------------------------------------- deletes
\* The kinds of the Change Record, with the kind of their callbacks.
RecordKinds == {"codeSpec", "font", "model", "element", "aspect", "relationship"}
CallbackKind(k) == IF k = "codeSpec" THEN "codespec" ELSE k

\* The positions of the log at which a delete notification for (kind, id) was issued.
DeleteNotifications(kind, id) ==
  {i \in DOMAIN log : log[i].op = "delete" /\ log[i].kind = kind /\ log[i].id = id}

\* C11 as stated: after exportChanges, every identifier in the delete set of
\* every kind of the Change Record has got a delete notification.
C11_DeleteCoverage ==
  ChangeScoped =>
    \A k \in RecordKinds : \A id \in sourceDbChanges.ids[k].deleteIds :
      DeleteNotifications(CallbackKind(k), id) # {}

\* C12: in exportChanges every delete notification comes after every export
\* callback, no source access is made once the first delete notification has
\* been issued, and the deleted element is never loaded.
C12_DeletesLast ==
  ChangeScoped =>
    /\ \A i \in DOMAIN log, j \in DOMAIN log :
         (log[i].op = "delete" /\ log[j].cb \in ExportCallbacks) => j < i
    /\ \A i \in DOMAIN log : log[i].op = "delete" => log[i].at = accesses
    /\ <<"element", DeletedElementId>> \notin loaded

\* An export callback followed by the delete notifications of the deleted
\* element and of another entity.
C12_Witness ==
  /\ ChangeScoped
  /\ \E j \in DOMAIN log : log[j].cb \in ExportCallbacks
  /\ DeleteNotifications("element", DeletedElementId) # {}
  /\ Cardinality({i \in DOMAIN log : log[i].op = "delete"}) >= 1

\* C13: an exportChanges with visit-elements on issues exactly one element
\* delete notification for each identifier of the element delete set, and none
\* for any other element identifier.
C13_DeletePropagation ==
  (ChangeScoped /\ visitElements) =>
    /\ \A id \in 1..DeletedElementId :
         Cardinality(DeleteNotifications("element", id))
           = IF id \in sourceDbChanges.ids.element.deleteIds THEN 1 ELSE 0
    /\ \A i \in DOMAIN log :
         log[i].cb = "onDeleteElement" => log[i].id \in sourceDbChanges.ids.element.deleteIds

\* The deleted element notified once, while a sibling that the same range
\* updated is exported and gets no delete notification.
C13_Witness ==
  /\ ChangeScoped /\ visitElements
  /\ Cardinality(DeleteNotifications("element", DeletedElementId)) = 1
  /\ \E e \in ElemIds :
       /\ e \in sourceDbChanges.ids.element.updateIds
       /\ DeleteNotifications("element", e) = {}

\* C17 as stated: for every kind, the insert, update and delete sets of the
\* Change Record compiled for a range are pairwise disjoint.
C17_Disjoint ==
  ChangeScoped =>
    \A k \in RecordKinds :
      LET ops == sourceDbChanges.ids[k]
      IN /\ ops.insertIds \cap ops.updateIds = {}
         /\ ops.insertIds \cap ops.deleteIds = {}
         /\ ops.updateIds \cap ops.deleteIds = {}

\* C18 as stated: an exportAll that follows an exportChanges on the same
\* traverser is unscoped: no Change Record is held, and every element that is
\* not excluded and has no excluded ancestor gets its export callback.
C18_UnscopedAfterChanges ==
  (calls = 2 /\ lastCall.name = "exportAll") =>
    /\ ~sourceDbChanges.defined
    /\ \A e \in ElemIds : NotExcludedUpward(e) => Cardinality(ElementExports(e)) = 1

\* C19: exportChanges on a source that is not a briefcase fails at once: no
\* callback, no source access, no load, no Change Record.
C19_NotABriefcase ==
  (lastCall.name = "exportChanges" /\ sourceDbKind = "snapshot") =>
    /\ lastCall.error = "Must be a briefcase to export changes"
    /\ log = <<>>
    /\ accesses = 0 /\ loaded = {} /\ asked = {}
    /\ ~sourceDbChanges.defined
    /\ progressCounter = 0

C19_Witness ==
  /\ lastCall.name = "exportChanges" /\ sourceDbKind = "snapshot"
  /\ lastCall.error # "" /\ calls = 1

\* ------------------------------------------------- switches and progress
\* exportModel(m) issues the container callback of m.
ModelExported(m) ==
  /\ ModelWalked(m)
  /\ ~IsExcluded(m)
  /\ ~(IsTemplateModel(m) /\ ~wantTemplateModels)

ModelExports(m) == {i \in DOMAIN log : log[i].cb = "onExportModel" /\ log[i].id = m}

\* C14: with visit-elements and visit-relationships both off, exportAll,
\* exportElement, exportChildElements, exportModelContents and
\* exportRelationships, as a first or as a second call, end without error and
\* issue no element, aspect or relationship callback, and exportAll still issues
\* the callback of every model it exports.
C14_VisitSwitchesOff ==
  (/\ ~visitElements /\ ~visitRelationships
   /\ lastCall.name \in {"exportAll", "exportElement", "exportChildElements",
                         "exportModelContents", "exportRelationships"})
  => /\ lastCall.error = ""
     /\ \A i \in DOMAIN log :
          log[i].kind \notin {"element", "unique-aspect", "multi-aspect", "relationship"}
     /\ lastCall.name = "exportAll" =>
          \A m \in ModelIds : ModelExported(m) => Cardinality(ModelExports(m)) = 1

\* Both switches off: an exportAll, made after another call, that issued the
\* callbacks of several models.
C14_Witness ==
  /\ ~visitElements /\ ~visitRelationships
  /\ calls = 2 /\ lastCall.name = "exportAll" /\ lastCall.error = ""
  /\ Cardinality({i \in DOMAIN log : log[i].cb = "onExportModel"}) >= 2

\* The number of entities the callbacks of a log exported: one for each export
\* callback (a multi-aspect batch counted once), none for a delete
\* notification or a progress report.
EntitiesVisited(l) ==
  Cardinality({i \in DOMAIN l : l[i].cb \in ExportCallbacks \cup {"onExportSchema"}})

\* C15 as stated: a call never decreases or resets the counter, and adds to it
\* one for every entity, of any kind, that it exported.
C15_CounterCountsVisits ==
  [][calls' = calls + 1 => progressCounter' = progressCounter + EntitiesVisited(log')]_vars

ProgressReports(l) == {i \in DOMAIN l : l[i].cb = "onProgress"}

\* C16: with an interval N > 0 a call reports progress exactly at the
\* multiples of N that the counter reaches, right after the callback that
\* reached it; with N = 0 it never does, and no call fails for it.
C16_ProgressHook ==
  [][calls' = calls + 1 =>
       IF progressInterval = 0
       THEN /\ ProgressReports(log') = {}
            /\ lastCall'.name # "exportChanges" => lastCall'.error = ""
       ELSE /\ Cardinality(ProgressReports(log'))
                 = (progressCounter' \div progressInterval)
                     - (progressCounter \div progressInterval)
            /\ {log'[i].id : i \in ProgressReports(log')}
                 = {n \in (progressCounter + 1)..progressCounter' : n % progressInterval = 0}
            /\ \A i \in ProgressReports(log') :
                 i > 1 /\ log'[i - 1].cb \in ExportCallbacks]_vars

\* A second call that reported progress with N = 2, the first call having left
\* the counter odd.
C16_Witness ==
  /\ progressInterval = 2 /\ calls = 2
  /\ ProgressReports(log) # {}
  /\ (progressCounter - EntitiesVisited(log)) % 2 = 1

\* ------------------------------------------------------ failing accesses
\* C20 as stated: when a source access of a top-level call fails, the call
\* fails, the access is not repeated and no other is made, and no callback is
\* issued after the failure.
C20_FailurePropagates ==
  failedAt # -1 =>
    /\ lastCall.error # ""
    /\ accesses = lastCall.arg
    /\ Len(log) = failedAt

\* ------------------------------------------------------- the Remap Context
\* The positions of the remapElement calls made for source s.
RemapCallsOf(s) ==
  {i \in DOMAIN remapCalls : remapCalls[i].op = "remapElement" /\ remapCalls[i].source = s}

\* C21: after any sequence of remapElement calls, findTargetElementId(s) is the
\* target given in the most recent remapElement(s, t) for that s, whether or not
\* the target has such an entity and whether or not another source has the same
\* target.
C21_LastWriteWins ==
  \A s \in PipeEntities :
    RemapCallsOf(s) # {} =>
      LET last == CHOOSE i \in RemapCallsOf(s) : \A j \in RemapCallsOf(s) : j <= i
      IN findTargetElementId(s) = remapCalls[last].target

\* After a run that gave s a target, s was remapped twice, last to an id the
\* target does not have.
C21_Witness ==
  /\ phase = "done"
  /\ \E s \in PipeEntities :
       /\ ProvenanceOf(Scope, s) # {}
       /\ RemapCallsOf(s) = {1, 2}
       /\ remapCalls[1].target # remapCalls[2].target
       /\ remapCalls[2].target = NumEntities + 1
       /\ findTargetElementId(s) = NumEntities + 1

\* Whether the element namespace has an entry for s: an explicit remap, the
\* implicit entry of an entity the run has written or found up to date, or a
\* Provenance Record of the target under the scope.
HasElementEntry(s) ==
  \/ RemapCallsOf(s) # {}
  \/ s \in PipeEntities /\ entityState[s] \in {"Processed", "Skipped"}
  \/ ProvenanceOf(Scope, s) # {}

\* Whether a remapCodeSpec call named the source code spec c.
HasCodeSpecEntry(c) ==
  \E i \in DOMAIN remapCalls :
    /\ remapCalls[i].op = "remapCodeSpec"
    /\ c \in CodeSpecIds /\ remapCalls[i].name = CodeSpecName(c)

\* C22: findTargetElementId and findTargetCodeSpecId answer the reserved invalid
\* identifier for every identifier (of the source or not) that has no entry in
\* their own namespace; in particular the target of an element remap gets no
\* entry as a source, and an element remap gives no code-spec entry.
C22_LookupNeverFails ==
  \A x \in 1..(NumEntities + 1) :
    /\ ~HasElementEntry(x) => findTargetElementId(x) = Invalid
    /\ ~HasCodeSpecEntry(x) => findTargetCodeSpecId(x) = Invalid

\* remapElement(s, t) was called with a target that is the id of a source
\* element and of a source code spec, and both lookups of t answer invalid.
C22_Witness ==
  \E i \in DOMAIN remapCalls :
    LET s == remapCalls[i].source
        t == remapCalls[i].target
    IN /\ remapCalls[i].op = "remapElement"
       /\ findTargetElementId(s) = t
       /\ t \in PipeEntities \cap CodeSpecIds /\ t # s
       /\ ~HasElementEntry(t) /\ ~HasCodeSpecEntry(t)
       /\ findTargetElementId(t) = Invalid /\ findTargetCodeSpecId(t) = Invalid

\* Whether the source database has a code spec of that name.
SourceHasCodeSpec(name) == \E c \in CodeSpecIds : CodeSpecName(c) = name

\* C23: a remapCodeSpec call whose source name the source database does not have
\* raises a hard error at the call and leaves both namespaces of the Remap
\* Context as they were.
C23_UnknownCodeSpec ==
  [][(/\ Len(remapCalls') = Len(remapCalls) + 1
      /\ remapCalls'[Len(remapCalls')].op = "remapCodeSpec"
      /\ ~SourceHasCodeSpec(remapCalls'[Len(remapCalls')].name))
     => (/\ pipeError'.kind = "code spec not found"
         /\ remapTable' = remapTable
         /\ codeSpecRemap' = codeSpecRemap)]_vars

\* The last call was a remapCodeSpec of a name the source does not have, made
\* after a remapCodeSpec that succeeded: the error is raised and the earlier
\* entry is the only one.
C23_Witness ==
  /\ Len(remapCalls) = 2
  /\ remapCalls[1].op = "remapCodeSpec" /\ SourceHasCodeSpec(remapCalls[1].name)
  /\ remapCalls[2].op = "remapCodeSpec" /\ ~SourceHasCodeSpec(remapCalls[2].name)
  /\ pipeError.kind = "code spec not found"
  /\ Cardinality({c \in CodeSpecIds : findTargetCodeSpecId(c) # Invalid}) = 1
  /\ \A s \in PipeEntities : remapTable[s] = Invalid

\* C24: a source identifier that resolves to a target identifier keeps resolving
\* to the same one for as long as the source has the entity, in particular across
\* the start of the next run, whose fresh Remap Context has no entry and answers
\* from the Provenance Records of the target by (scope, sourceId).
C24_StableIdentity ==
  [][\A e \in PipeEntities :
       (findTargetElementId(e) # Invalid /\ srcVersion'[e] > 0)
         => findTargetElementId(e)' = findTargetElementId(e)]_vars

\* A later run has begun: an entity the run before wrote, edited since, is still
\* Pending, the run's map has no entry for it, and the lookup answers the target
\* of its Provenance Record.
C24_Witness ==
  /\ runs >= 2 /\ phase = "primary"
  /\ \E e \in PipeEntities :
       /\ entityState[e] = "Pending" /\ srcVersion[e] > 1
       /\ remapTable[e] = Invalid
       /\ \E p \in provenance : p.sourceId = e /\ findTargetElementId(e) = p.targetId

\* ------------------------------------------------------ the Deferral Queue
\* The Deferred Items a sweep could process now.
Processable == {d \in deferralQueue : \A r \in d.blocking : findTargetElementId(r) # Invalid}

C26_DeferredOrdering ==
  [][(Len(imports') = Len(imports) + 1 /\ imports'[Len(imports')].deferred) =>
       LET u == imports'[Len(imports')]
       IN /\ u.blocking # {}
          /\ \A r \in RefsOf(u.id) :
               /\ entityState[r] \in {"Processed", "Skipped"}
               /\ findTargetElementId(r) # Invalid
          /\ \A r \in u.blocking : \E j \in DOMAIN imports : imports[j].id = r
          /\ Invalid \notin u.refs]_vars

\* A deferred relationship was written after the deferred element that blocked
\* it, with both its ends resolved to different target identifiers.
C26_Witness ==
  \E i \in DOMAIN imports : \E j \in 1..(i - 1) :
    /\ imports[i].deferred /\ imports[j].deferred
    /\ imports[j].id \in imports[i].blocking
    /\ EntityKind(imports[i].id) = "relationship"
    /\ Cardinality(imports[i].refs) = 2 /\ Invalid \notin imports[i].refs

\* C27: two entities that refer to each other through references of different
\* kinds (one by a navigation property, the other by the scope of its code),
\* neither of them excluded, have both been processed when the run ends, and
\* the run has not failed on its queue.
C27_CycleSafety ==
  \A a, b \in PipeEntities \ pipeExcluded :
    (a # b /\ b \in RefsOf(a) /\ a \in RefsOf(b) /\ phase \in {"done", "failed"}) =>
      /\ entityState[a] \in {"Processed", "Skipped"}
      /\ entityState[b] \in {"Processed", "Skipped"}
      /\ pipeError.kind # "unresolved predecessors"

\* ------------------------------------------------- the per-entity states
\* The upserts a run has written for e, as positions of a list of upserts.
UpsertsOf(list, e) == {i \in DOMAIN list : list[i].id = e}

\* C28: within a run an entity leaves Pending for Excluded, Deferred, Processed
\* or Skipped, leaves Deferred for Processed or Failed only, and leaves none of
\* the other states; after every step of the run an entity that is Processed
\* has exactly one upsert, written
\* with one Provenance Record unless provenance is suppressed, and an entity that
\* is Excluded, Skipped or Failed has none; the importer's counters agree.
C28_EntityStateMachine ==
  [][/\ \A e \in PipeEntities :
          /\ (entityState[e] = "Pending" /\ entityState'[e] # "Pending") =>
                entityState'[e] \in {"Excluded", "Deferred", "Processed", "Skipped"}
          /\ (entityState[e] = "Deferred" /\ entityState'[e] # "Deferred") =>
                entityState'[e] \in {"Processed", "Failed"}
          /\ (entityState[e] \in {"Excluded", "Processed", "Skipped", "Failed"}
                /\ runs' = runs) => entityState'[e] = entityState[e]
          /\ (Running /\ entityState'[e] = "Processed") =>
                /\ Cardinality(UpsertsOf(imports', e)) = 1
                /\ \A i \in UpsertsOf(imports', e) : imports'[i].provenance = ~noProvenance
                /\ ~noProvenance =>
                     \E p \in provenance' :
                       /\ p.scope = Scope' /\ p.sourceId = e /\ p.version = srcVersion[e]
                       /\ \A q \in provenance' :
                            (q.scope = p.scope /\ q.sourceId = e) => q = p
          /\ (Running /\ entityState'[e] \in {"Excluded", "Skipped", "Failed"}) =>
                UpsertsOf(imports', e) = {}
     /\ stats'.inserted + stats'.updated = Len(imports')
     /\ stats'.provenanceWrites =
          Cardinality({i \in DOMAIN imports' : imports'[i].provenance})]_vars

\* A second run has failed on its queue: it updated the one entity the host had
\* edited, found nothing else to write, excluded an element and left the two
\* entities that refer to it Failed.
C28_Witness ==
  /\ runs = 2 /\ phase = "failed"
  /\ Len(imports) = 1 /\ stats.updated = 1 /\ stats.provenanceWrites = 1
  /\ entityState[imports[1].id] = "Processed"
  /\ \E e \in PipeEntities : entityState[e] = "Excluded"
  /\ Cardinality({e \in PipeEntities : entityState[e] = "Failed"}) = 2

\* --------------------------------------------------- synchronization scopes
\* C29: the first run into a target does not fail on its scope; a run that
\* begins, under the default scope, after a completed run of another source
\* under the default scope fails at once with the configuration error and
\* leaves the target and its Provenance Records as the first source's run
\* left them.
C29_ConflictingScope ==
  [][(runs' = runs + 1) =>
       /\ runs = 0 => (phase' = "primary" /\ pipeError'.kind = "")
       /\ (~teamScopes /\ phase = "done" /\ runSource' # runSource) =>
            /\ phase' = "failed"
            /\ pipeError'.kind = "conflicting provenance scope"
            /\ provenance' = provenance /\ targetDb' = targetDb
            /\ \A e \in PipeEntities : entityState'[e] \notin {"Pending", "Deferred"}]_vars

\* The run of a second source under the default scope has failed on the scope,
\* and the target holds what the first source's run wrote.
C29_Witness ==
  /\ runs = 2 /\ phase = "failed" /\ pipeError.kind = "conflicting provenance scope"
  /\ ~teamScopes /\ runSource = "B" /\ scopeSource["scope"] = "A"
  /\ Cardinality(provenance) = NumEntities /\ TargetCounts = baseline.counts
  /\ imports = <<>>

\* C30: the target never holds two Provenance Records for one (scope, source
\* identifier) pair, nor two records for one target entity, and every record
\* traces an entity of the target; once two sources have been transformed into
\* the target under their own scopes, every entity of each source has exactly
\* one record under its source's scope and the target has one entity per record.
C30_ProvenanceUniqueness ==
  /\ \A p, q \in provenance :
       ((p.scope = q.scope /\ p.sourceId = q.sourceId) \/ p.targetId = q.targetId) => p = q
  /\ \A p \in provenance : \E t \in targetDb : t.id = p.targetId
  /\ (teamScopes /\ phase = "done" /\ scopeSource["A"] = "A" /\ scopeSource["B"] = "B") =>
       /\ \A src \in {"A", "B"} : \A e \in PipeEntities :
            Cardinality({p \in provenance : p.scope = src /\ p.sourceId = e}) = 1
       /\ Cardinality(targetDb) = Cardinality(provenance)

\* Two sources have been transformed under their own scopes: the same source
\* identifier has a record under each scope, for two different target entities.
C30_Witness ==
  /\ teamScopes /\ phase = "done" /\ scopeSource["A"] = "A" /\ scopeSource["B"] = "B"
  /\ Cardinality(targetDb) = 2 * NumEntities
  /\ \E p, q \in provenance :
       p.scope = "A" /\ q.scope = "B" /\ p.sourceId = q.sourceId /\ p.targetId # q.targetId

\* exportModel stops at model m: m is a template and templates are not wanted,
\* or the modeled element of m is excluded.
PrunedModel(m) == (IsTemplateModel(m) /\ ~wantTemplateModels) \/ IsExcluded(m)

RECURSIVE UnderModel(_, _)
\* Model m is model top, or a sub-model of it at any depth.
UnderModel(m, top) == m # 0 /\ (m = top \/ UnderModel(ParentModelOf(m), top))

\* C31: in exportAll and exportModel, a model at or below the model the call
\* starts from whose modeled element is excluded, or that is a template while
\* template models are not wanted, gets no callback:
\* not for its container, not for an element in it, not for a sub-model or an
\* element of a sub-model; a direct exportModel of such a model issues nothing.
C31_ModelPruning ==
  lastCall.name \in {"exportAll", "exportModel"} =>
    /\ \A m \in ModelIds : \A i \in DOMAIN log :
         (PrunedModel(m) /\ (lastCall.name = "exportModel" => UnderModel(m, lastCall.arg))) =>
           /\ ~(log[i].kind = "model" /\ UnderModel(log[i].id, m))
           /\ ~(log[i].kind = "element" /\ UnderModel(ModelOf(log[i].id), m))
    /\ (lastCall.name = "exportModel" /\ PrunedModel(lastCall.arg)) => log = <<>>

\* An exportAll that issued callbacks and pruned a model that has an element and
\* a model whose modeled element the handler rejected; or a direct exportModel
\* of a pruned model that has a sub-model.
C31_Witness ==
  \/ /\ lastCall.name = "exportAll" /\ log # <<>> /\ visitElements
     /\ \E m \in ModelIds : /\ PrunedModel(m) /\ ~PrunedModel(ParentModelOf(m))
                            /\ \E e \in ElemIds : ModelOf(e) = m
  \/ /\ lastCall.name = "exportModel" /\ PrunedModel(lastCall.arg)
     /\ \E s \in ModelIds : ParentModelOf(s) = lastCall.arg /\ ~PrunedModel(s)

\* The positions of the log at which schema s was handed to the handler.
SchemaExports(s) == {i \in DOMAIN log : log[i].cb = "onExportSchema" /\ log[i].id = s}

\* The row of BisCore in ECInstanceId order.
BisCoreId == CHOOSE s \in SchemaIds : Schemas[s] = "BisCore"

\* C32: an exportSchemas call whose source accesses succeed exports, once each,
\* the schemas the handler accepts from BisCore on when wantSystemSchemas is
\* false and all the schemas the handler accepts when it is true; no schema
\* before BisCore is exported when wantSystemSchemas is false.
C32_SystemSchemas ==
  (lastCall.name = "exportSchemas" /\ failedAt = -1) =>
    \A s \in SchemaIds :
      /\ Cardinality(SchemaExports(s)) =
           IF (wantSystemSchemas \/ s >= BisCoreId) /\ <<"schema", s>> \notin handlerRejects
           THEN 1 ELSE 0
      /\ (~wantSystemSchemas /\ s < BisCoreId) => SchemaExports(s) = {}

\* An exportSchemas without system schemas that left out the schema before
\* BisCore and exported BisCore; or one with system schemas whose handler
\* rejected one schema and that exported the schema before BisCore.
C32_Witness ==
  /\ lastCall.name = "exportSchemas" /\ failedAt = -1
  /\ \/ /\ ~wantSystemSchemas /\ SchemaExports(BisCoreId) # {}
        /\ \E s \in SchemaIds : s < BisCoreId /\ SchemaExports(s) = {}
     \/ /\ wantSystemSchemas /\ \E s \in SchemaIds : <<"schema", s>> \in handlerRejects
        /\ \E s \in SchemaIds : s < BisCoreId /\ SchemaExports(s) # {}

\* The position at which the handler call for schema s has finished: where its
\* promise settled, or where the call was made when the handler returns none.
SchemaFinished(s) ==
  IF asyncHandler
  THEN CHOOSE i \in DOMAIN log : log[i].cb = "onExportSchema settled" /\ log[i].id = s
  ELSE CHOOSE i \in DOMAIN log : log[i].cb = "onExportSchema" /\ log[i].id = s

\* C33 as stated: in an exportSchemas call whose source accesses succeed, the
\* handler calls are made in ascending schema id order, and the call for a schema
\* is made only after the calls for all schemas exported before it have finished.
C33_SchemaOrder ==
  (lastCall.name = "exportSchemas" /\ failedAt = -1) =>
    \A i \in DOMAIN log : \A j \in DOMAIN log :
      (i < j /\ log[i].cb = "onExportSchema" /\ log[j].cb = "onExportSchema") =>
        /\ log[i].id < log[j].id
        /\ SchemaFinished(log[i].id) < j

\* C34 as stated: in a change-scoped export with elements visited, every element
\* in the element insert or update set that is not excluded and has no excluded
\* ancestor gets exactly one export callback, whether or not its model is in the
\* model insert or update set.
C34_ChangeScopedCompleteness ==
  (ChangeScoped /\ visitElements) =>
    \A e \in ElemIds :
      (ElementChanged(e) /\ NotExcludedUpward(e)) => Cardinality(ElementExports(e)) = 1

\* The errors of a failed change digest: of the hub, and of the extraction.
DigestErrors == {"changeset query failed", "Error processing changeset"}

\* C35: an exportChanges whose changeset query or download fails, or in which
\* the extraction of a changeset reports an error, fails without a callback and
\* without an access to the source, and leaves the stored Change Record as it
\* was before the call.
C35_FailedDigestNoTrace ==
  [][(calls' = calls + 1 /\ lastCall'.name = "exportChanges"
        /\ lastCall'.error \in DigestErrors)
       => /\ log' = <<>>
          /\ accesses' = 0
          /\ sourceDbChanges' = sourceDbChanges]_vars

\* A second exportChanges that failed in its digest, on a traverser whose first
\* exportChanges stored a Change Record with a changed element, which is still
\* the stored record.
C35_Witness ==
  /\ calls = 2 /\ lastCall.name = "exportChanges" /\ lastCall.error = "Error processing changeset"
  /\ log = <<>>
  /\ sourceDbChanges.defined
  /\ sourceDbChanges.ids.element.updateIds # {}

\* ------------------------------------------------- the tree event handler
\* The calls on the mutator that the step makes for a stream of one of the given
\* kinds that was handed to the handler before the step.
StreamCalls(kinds) ==
  {i \in DOMAIN treeCalls' :
     /\ treeCalls'[i].stream \in DOMAIN streams
     /\ streams[treeCalls'[i].stream].kind \in kinds}

\* C36: no emission of a selection stream handed to the handler before a call of
\* onSelectionReplaced reaches the mutator after that call; of a replacement
\* stream only the first emission calls replaceSelection, and every later
\* emission only calls modifySelection with nothing to deselect.
C36_ReplacementCancels ==
  [][\A i \in StreamCalls({"modify", "replace"}) :
       LET c == treeCalls'[i]
           s == streams[c.stream]
       IN /\ ~s.replaced
          /\ c.op = "replaceSelection" => (s.kind = "replace" /\ s.firstEmission)
          /\ (s.kind = "replace" /\ ~s.firstEmission) =>
               (c.op = "modifySelection" /\ ~c.deselects)]_vars

\* A later emission of a replacement stream added to the selection, after the
\* call that handed it over cancelled an older modification stream and an older
\* replacement stream.
C36_Witness ==
  /\ \E s \in DOMAIN streams :
       /\ streams[s].kind = "replace" /\ streams[s].active /\ ~streams[s].firstEmission
       /\ treeCalls = <<[op |-> "modifySelection", stream |-> s, deselects |-> FALSE]>>
  /\ \E s \in DOMAIN streams : streams[s].kind = "modify" /\ streams[s].replaced
  /\ \E s \in DOMAIN streams : streams[s].kind = "replace" /\ streams[s].replaced

\* C37 as stated: after dispose(), no emission of a stream handed to
\* onSelectionModified, onSelectionReplaced or onCheckboxStateChanged before it,
\* and no pending node expansion, makes a call on the mutator.
C37_DisposeStops ==
  [][\A i \in StreamCalls({"modify", "replace", "checkbox", "expand"}) :
       ~streams[treeCalls'[i].stream].disposed]_vars

\* The widgets whose tab list holds the tab.
WidgetsWithTab(tabId) ==
  {w \in DOMAIN nineZone.widgets : indexOf(nineZone.widgets[w].tabs, tabId) >= 0}

\* C38: while the tool settings are docked no widget's tab list holds the
\* tool-settings tab, and while they are a widget the tab is in a widget or is
\* the dragged tab.
C38_ToolSettingsDocking ==
  /\ nineZone.toolSettings = "docked" => WidgetsWithTab(toolSettingsTabId) = {}
  /\ nineZone.toolSettings = "widget" =>
       \/ WidgetsWithTab(toolSettingsTabId) # {}
       \/ nineZone.draggedTab.tabId = toolSettingsTabId

\* The ids a list of widget ids names.
ListedIds(ids) == {ids[i] : i \in DOMAIN ids}

\* C39: every widget's active tab is one of its own tabs, so that no widget is
\* without tabs, and the panels and the lists of floating and popout widgets
\* name only widgets of state.widgets: a widget whose last tab was removed is
\* gone from all of them.
C39_WidgetWellFormed ==
  /\ \A w \in DOMAIN nineZone.widgets :
       indexOf(nineZone.widgets[w].tabs, nineZone.widgets[w].activeTabId) >= 0
  /\ \A side \in PanelSides : ListedIds(nineZone.panels[side]) \subseteq DOMAIN nineZone.widgets
  /\ ListedIds(nineZone.floatingAllIds) \subseteq DOMAIN nineZone.widgets
  /\ ListedIds(nineZone.popoutAllIds) \subseteq DOMAIN nineZone.widgets

\* The only tab of the panel section w1 is being dragged and the section is gone.
C39_Witness ==
  /\ nineZone.draggedTab.tabId = "t1"
  /\ nineZone.draggedTab.home.widgetId = "w1"
  /\ "w1" \notin DOMAIN nineZone.widgets
  /\ \A side \in PanelSides : "w1" \notin ListedIds(nineZone.panels[side])

\* The panel sections of the state that hold the tab, as <<side, index>>.
SectionsWithTab(state, tabId) ==
  {p \in PanelSides \X (1..(2 * getMaxWidgetCount)) :
     /\ p[2] \in DOMAIN state.panels[p[1]]
     /\ state.panels[p[1]][p[2]] \in DOMAIN state.widgets
     /\ indexOf(state.widgets[state.panels[p[1]][p[2]]].tabs, tabId) >= 0}

\* The home of a floating or popout widget.
HomeOf(id) ==
  IF id \in DOMAIN nineZone.popoutById THEN nineZone.popoutById[id].home
  ELSE nineZone.floatingById[id].home

\* C40: a send-back step removes the returning widget from state.widgets,
\* leaves each of its tabs in exactly one panel section, leaves the home panel
\* with at most maxWidgetCount sections, and adds no section to a home panel
\* that was full.
C40_SendBackLimit ==
  [][(FLOATING_WIDGET_SEND_BACK \/ POPOUT_WIDGET_SEND_BACK) =>
       \E id \in ListedIds(nineZone.floatingAllIds) \cup ListedIds(nineZone.popoutAllIds) :
         /\ id \notin DOMAIN nineZone'.widgets
         /\ id \notin ListedIds(nineZone'.floatingAllIds) \cup ListedIds(nineZone'.popoutAllIds)
         /\ \A i \in DOMAIN nineZone.widgets[id].tabs :
              Cardinality(SectionsWithTab(nineZone', nineZone.widgets[id].tabs[i])) = 1
         /\ Len(nineZone'.panels[HomeOf(id).side]) <= getMaxWidgetCount
         /\ Len(nineZone.panels[HomeOf(id).side]) = getMaxWidgetCount =>
              nineZone'.panels[HomeOf(id).side] = nineZone.panels[HomeOf(id).side]]_vars
====
